---- MODULE Spec2Model ----
(***************************************************************************)
(* A model of the report renderer create_pdf_report of src/app.py and of   *)
(* the canvas it draws on.                                                 *)
(*                                                                         *)
(* Strings are modelled by their length (a natural number) and a drawn     *)
(* string by the character range [lo, hi) of the text it was sliced from.  *)
(* A dict is a function whose DOMAIN is its key set, a list a sequence.    *)
(* Every draw call appends one record to the canvas, with the page and     *)
(* the cursor position it was made at.                                     *)
(***************************************************************************)
EXTENDS Integers, Sequences, FiniteSets, TLC

VARIABLES
    policy,           \* argument: the policy record (field lengths)
    analysis,         \* argument: [given |-> FALSE] for None, else [given |-> TRUE, map |-> dict]
    images,           \* argument: list of image blobs, "ok" (decodable) or "bad" (corrupt)
    video_prompts,    \* argument: list of prompt texts (lengths)
    cidFontAvailable, \* environment: whether UnicodeCIDFont('HYSMyeongJo-Medium') can be built
    registered,       \* pdfmetrics' process-wide font registry
    font_name,        \* local: the font every setFont call uses
    c,                \* local: the canvas, [pages |-> showPage calls so far, ops |-> draw calls]
    y,                \* local: the vertical cursor
    idx,              \* local: the index of the image / prompt loop
    pc,               \* position in create_pdf_report
    result,           \* "none" while running, "bytes" once returned, "exception" if raised
    calls,            \* number of completed calls of create_pdf_report
    prev,             \* what the previous completed call drew and returned
    db,               \* the SQLite database: its tables and sqlite_sequence
    session_state,    \* st.session_state
    clock,            \* datetime.now()
    db_calls,         \* the calls made on the database so far, with what they returned
    client,           \* environment: what the chat API does with the k-th request
    requests,         \* the requests sent to the chat API so far
    returned,         \* the return value of the function called, once it has returned
    args,             \* the arguments of a call of add_heading or add_text, or of an export
    zipf,             \* create_zip_export: the entries written to the archive so far
    pdf_bytes         \* create_zip_export: argument, the report bytes

vars == <<policy, analysis, images, video_prompts, cidFontAvailable, registered,
          font_name, c, y, idx, pc, result, calls, prev,
          db, session_state, clock, db_calls, client, requests, returned, args,
          zipf, pdf_bytes>>

inputs == <<policy, analysis, images, video_prompts, cidFontAvailable>>

\* What lives outside a call of create_pdf_report: the database and the session.
outside == <<db, session_state, clock, db_calls>>

\* The state of the other functions of the module.
others == <<client, requests, returned, args, zipf, pdf_bytes>>

Min(a, b) == IF a < b THEN a ELSE b

\* items[:n]
Take(items, n) == SubSeq(items, 1, Min(Len(items), n))

\* list(range(0, stop, step))
Range0(stop, step) == [k \in 1..((stop + step - 1) \div step) |-> (k - 1) * step]

(***************************************************************************)
(* Python dict lookups.  A text value is its length, so '' is 0.           *)
(***************************************************************************)
Has(d, k) == k \in DOMAIN d
\* d.get(k, '') for a text field, as a length
GetStr(d, k) == IF Has(d, k) THEN d[k] ELSE 0
\* bool(d.get(k)) for a text field
TruthyStr(d, k) == Has(d, k) /\ d[k] > 0
\* bool(d.get(k)) for a list field
TruthyList(d, k) == Has(d, k) /\ Len(d[k]) > 0
\* bool(d.get(k)) for a dict field
TruthyDict(d, k) == Has(d, k) /\ DOMAIN d[k] # {}
\* (mutant) only None counts as no analysis
NotAnalysis_none_only(a) == ~a.given

\* `not analysis`: None and the empty dict are both falsy
NotAnalysis(a) == IF a.given THEN DOMAIN a.map = {} ELSE TRUE

(***************************************************************************)
(* The page.  A4 is 841.89 points high; every threshold and decrement of   *)
(* the cursor is a whole number of points, so the cursor is tracked by its *)
(* whole part (y < n for an integer n is decided by the whole part of y).  *)
(***************************************************************************)
height == 841

\* A text handed to a draw call: the report part it belongs to (0 cover,
\* 1..7 sections, 8 images, 9 video prompts), its kind ("cover", "heading",
\* "label" of a list or block, "text" of a scalar field, "item" of a list,
\* "sub" for the second line of an item, "caption"), the field it renders,
\* the 1-based position of the list item it renders (0 if none), its length.
T(part, kind, src, i, len) ==
    [part |-> part, kind |-> kind, src |-> src, idx |-> i, len |-> len]

\* c.showPage()
showPage(cv) == [cv EXCEPT !.pages = @ + 1]

\* c.drawString(x, y, text[lo:hi]) after c.setFont(font_name, size)
drawString(cv, x, yy, text, size, lo, hi) ==
    [cv EXCEPT !.ops = Append(@,
        [op |-> "drawString", part |-> text.part, kind |-> text.kind,
         src |-> text.src, idx |-> text.idx,
         x |-> x, y |-> yy, page |-> cv.pages + 1, size |-> size, lo |-> lo, hi |-> hi])]

\* c.drawImage(img, 50, y - 200, width=450, height=200)
drawImage(cv, yy, i) ==
    [cv EXCEPT !.ops = Append(@,
        [op |-> "drawImage", part |-> 8, kind |-> "image", src |-> "images", idx |-> i,
         x |-> 50, y |-> yy - 200, page |-> cv.pages + 1, size |-> 200, lo |-> 0, hi |-> 0])]

\* The layout state threaded through the helpers: the cursor and the canvas.
S(yy, cv) == [y |-> yy, c |-> cv]

\* Statements run in order: a layout state is computed in full before the
\* statement after it runs (this fixes the order TLC evaluates a loop in).
Done(s) == s.y \in Int /\ s.c.pages \in Nat

\* (mutant) the cursor reset without c.showPage()
new_page_same_page(s) == S(height - 50, s.c)

new_page(s) == S(height - 50, showPage(s.c))

\* (mutant) the page break made at y = 100 as well
add_heading_at_100(s, text, size) ==
    LET s1 == IF s.y <= 100 THEN new_page(s) ELSE s
    IN  S(s1.y - (size + 15), drawString(s1.c, 50, s1.y, text, size, 0, Min(text.len, 90)))

add_heading(s, text, size) ==
    LET s1 == IF s.y < 100 THEN new_page(s) ELSE s
    IN  S(s1.y - (size + 15), drawString(s1.c, 50, s1.y, text, size, 0, Min(text.len, 90)))

\* (mutant) the page break before a chunk made only below 50
RECURSIVE add_text_lines_at_50(_, _, _, _, _, _)
add_text_lines_at_50(s, text, size, indent, max_len, starts) ==
    IF starts = <<>> THEN s
    ELSE LET s1 == IF s.y < 50 THEN new_page(s) ELSE s
             lo == Head(starts)
             hi == Min(lo + max_len, text.len)
             s2 == S(s1.y - (size + 4), drawString(s1.c, indent, s1.y, text, size, lo, hi))
         IN  CASE Done(s2) -> add_text_lines_at_50(s2, text, size, indent, max_len, Tail(starts))

\* the for loop of add_text over the chunk starts
RECURSIVE add_text_lines(_, _, _, _, _, _)
add_text_lines(s, text, size, indent, max_len, starts) ==
    IF starts = <<>> THEN s
    ELSE LET s1 == IF s.y < 60 THEN new_page(s) ELSE s
             lo == Head(starts)
             hi == Min(lo + max_len, text.len)
             s2 == S(s1.y - (size + 4), drawString(s1.c, indent, s1.y, text, size, lo, hi))
         IN  CASE Done(s2) -> add_text_lines(s2, text, size, indent, max_len, Tail(starts))

\* (mutant) the page break on entry made at y = 80 as well
add_text_at_80(s, text, size, indent) ==
    LET s1 == IF s.y <= 80 THEN new_page(s) ELSE s
        max_len == IF indent = 60 THEN 85 ELSE 90
        lines == Range0(Min(text.len, 400), max_len)
        s2 == add_text_lines(s1, text, size, indent, max_len, Take(lines, 10))
    IN  S(s2.y - 5, s2.c)

add_text(s, text, size, indent) ==
    LET s1 == IF s.y < 80 THEN new_page(s) ELSE s
        max_len == IF indent = 60 THEN 85 ELSE 90
        lines == Range0(Min(text.len, 400), max_len)
        s2 == add_text_lines(s1, text, size, indent, max_len, Take(lines, 10))
    IN  S(s2.y - 5, s2.c)

\* `y -= 15` after a section
gap(s) == S(s.y - 15, s.c)

\* `if y < 150: y = new_page()` before a section heading
break_before_section(s) == IF s.y < 150 THEN new_page(s) ELSE s


(***************************************************************************)
(* The list caps: the literals of the slices items[:n].                    *)
(***************************************************************************)
\* (mutant) one item more of the key strategies
cap_key_strategies_off == 8 + 1

cap_key_strategies == 8
cap_expected_outcomes == 5
cap_action_items == 8
cap_key_messages == 8
cap_channels == 5
cap_social_media_posts == 5
cap_kpi_framework == 8
cap_success_criteria == 5
cap_stakeholders == 6
cap_objection_handling == 4
\* (mutant) one image more
cap_images_off == 4 + 1

cap_images == 4
\* (mutant) one text block more
cap_video_prompts_off == 9 + 1

cap_video_prompts == 9

\* The body of each `for` loop over a list field: what one item draws.
list_item(s, src, item, i) ==
    CASE src = "key_strategies" ->                    \* f"{idx}. {s}"
            add_text(s, T(1, "item", src, i, 3 + item), 10, 70)
      [] src = "expected_outcomes" ->                 \* bullet + outcome
            add_text(s, T(1, "item", src, i, 2 + item), 10, 70)
      [] src = "action_items" ->                      \* f"{idx}. {item.get('action', '')}"
            add_text(s, T(2, "item", src, i, 3 + GetStr(item, "action")), 10, 70)
      [] src = "key_messages" ->                      \* f"{idx}. {msg}"
            add_text(s, T(3, "item", src, i, 3 + item), 10, 70)
      [] src = "channels" ->                          \* bullet + channel + ": " + content_type
            add_text(s, T(3, "item", src, i, 2 + GetStr(item, "channel") + 2
                                       + GetStr(item, "content_type")), 10, 70)
      [] src = "social_media_posts" ->                \* f"{idx}. {platform}: {content}"
            add_text(s, T(5, "item", src, i, 3 + GetStr(item, "platform") + 2
                                       + GetStr(item, "content")), 10, 70)
      [] src = "kpi_framework" ->                     \* f"{idx}. {metric}", then the target
            LET s1 == add_text(s, T(6, "item", src, i, 3 + GetStr(item, "metric")), 10, 70)
            IN  IF TruthyStr(item, "target_range")
                THEN add_text(s1, T(6, "sub", "target_range", i, 7 + item["target_range"]), 9, 75)
                ELSE s1
      [] src = "success_criteria" ->                  \* bullet + criterion
            add_text(s, T(6, "item", src, i, 2 + item), 10, 70)
      [] src = "stakeholders" ->                      \* f"{idx}. {group}: {interests}"
            add_text(s, T(7, "item", src, i, 3 + GetStr(item, "group") + 2
                                       + GetStr(item, "interests")), 10, 70)
      [] src = "objection_handling" ->                \* the objection, then the response
            LET s1 == add_text(s, T(7, "item", src, i, 6 + GetStr(item, "objection")), 10, 70)
            IN  add_text(s1, T(7, "sub", "response", i, 6 + GetStr(item, "response")), 9, 75)

\* for (idx, item) in enumerate(items, 1): ...
RECURSIVE for_items(_, _, _, _)
for_items(s, src, items, i) ==
    IF i > Len(items) THEN s
    ELSE LET s1 == list_item(s, src, items[i], i)
         IN  CASE Done(s1) -> for_items(s1, src, items, i + 1)

\* (mutant) the label drawn for a list that is present but empty
list_field_label_always(s, part, d, src, label_len, cap) ==
    IF Has(d, src)
    THEN for_items(add_text(s, T(part, "label", src, 0, label_len), 11, 60),
                   src, Take(d[src], cap), 1)
    ELSE s

\* if d.get(src): add_text(label); for item in d[src][:cap]: ...
list_field(s, part, d, src, label_len, cap) ==
    IF TruthyList(d, src)
    THEN for_items(add_text(s, T(part, "label", src, 0, label_len), 11, 60),
                   src, Take(d[src], cap), 1)
    ELSE s


(***************************************************************************)
(* The cover block and the seven sections.  Each section operator takes    *)
(* the layout state before the section and the analysis dict, and gives    *)
(* the layout state after the section's trailing `y -= 15`.                *)
(***************************************************************************)
\* (mutant) the creation date taken from the clock of the call, not from the policy
cover_clock(cv, pol) ==
    LET now == 19 + calls
        y0 == height - 50
        c1 == drawString(cv, 50, y0, T(0, "cover", "report_title", 0, 6), 24, 0, 6)
        c2 == drawString(c1, 50, y0 - 50, T(0, "cover", "title", 0, 4 + Min(pol.title, 50)),
                         14, 0, 4 + Min(pol.title, 50))
        c3 == drawString(c2, 50, y0 - 75, T(0, "cover", "category", 0, 6 + Min(pol.category, 60)),
                         11, 0, 6 + Min(pol.category, 60))
        c4 == drawString(c3, 50, y0 - 95, T(0, "cover", "target_audience", 0,
                                            4 + pol.target_audience),
                         11, 0, 4 + pol.target_audience)
        c5 == drawString(c4, 50, y0 - 115, T(0, "cover", "created_at", 0, 5 + now),
                         11, 0, 5 + now)
    IN  S(y0 - 115, c5)

cover(cv, pol) ==
    LET y0 == height - 50
        c1 == drawString(cv, 50, y0, T(0, "cover", "report_title", 0, 6), 24, 0, 6)
        y1 == y0 - 50
        c2 == drawString(c1, 50, y1, T(0, "cover", "title", 0, 4 + Min(pol.title, 50)),
                         14, 0, 4 + Min(pol.title, 50))
        y2 == y1 - 25
        c3 == drawString(c2, 50, y2, T(0, "cover", "category", 0, 6 + Min(pol.category, 60)),
                         11, 0, 6 + Min(pol.category, 60))
        y3 == y2 - 20
        c4 == drawString(c3, 50, y3, T(0, "cover", "target_audience", 0, 4 + pol.target_audience),
                         11, 0, 4 + pol.target_audience)
        y4 == y3 - 20
        c5 == drawString(c4, 50, y4, T(0, "cover", "created_at", 0, 5 + pol.created_at),
                         11, 0, 5 + pol.created_at)
    IN  S(y4, c5)

\* if d.get(src): add_text(prefix + d[src], size, 60)
text_field(s, part, d, src, prefix_len, size) ==
    IF TruthyStr(d, src)
    THEN add_text(s, T(part, "text", src, 0, prefix_len + d[src]), size, 60)
    ELSE s

\* (mutant) the heading drawn only when the section is present
policy_planning_guarded(s, a) ==
    IF Has(a, "policy_planning")
    THEN LET s0 == add_heading(s, T(1, "heading", "policy_planning", 0, 8), 16)
             planning == a["policy_planning"]
             s1 == text_field(s0, 1, planning, "objective", 5, 10)
             s2 == text_field(s1, 1, planning, "target_analysis", 8, 10)
             s3 == list_field(s2, 1, planning, "key_strategies", 7, cap_key_strategies)
         IN  gap(list_field(s3, 1, planning, "expected_outcomes", 7, cap_expected_outcomes))
    ELSE gap(s)

policy_planning(s, a) ==
    LET s0 == add_heading(s, T(1, "heading", "policy_planning", 0, 8), 16)
        body ==
            IF Has(a, "policy_planning")
            THEN LET planning == a["policy_planning"]
                     s1 == text_field(s0, 1, planning, "objective", 5, 10)
                     s2 == text_field(s1, 1, planning, "target_analysis", 8, 10)
                     s3 == list_field(s2, 1, planning, "key_strategies", 7, cap_key_strategies)
                 IN  list_field(s3, 1, planning, "expected_outcomes", 7, cap_expected_outcomes)
            ELSE s0
    IN  gap(body)

\* (mutant) the risks drawn as a further list of the section
execution_plan_with_risks(s, a) ==
    LET s0 == add_heading(break_before_section(s), T(2, "heading", "execution_plan", 0, 8), 16)
        body ==
            IF Has(a, "execution_plan")
            THEN LET execution == a["execution_plan"]
                     s1 == list_field(s0, 2, execution, "action_items", 7, cap_action_items)
                     s2 == IF TruthyDict(execution, "resources_needed")
                           THEN add_text(s1, T(2, "label", "resources_needed", 0, 7), 11, 60)
                           ELSE s1
                 IN  IF TruthyList(execution, "risk_management")
                     THEN add_text(add_text(s2, T(2, "label", "risk_management", 0, 8), 11, 60),
                                   T(2, "item", "risk_management", 1,
                                     3 + GetStr(execution["risk_management"][1], "risk")), 10, 70)
                     ELSE s2
            ELSE s0
    IN  gap(body)

execution_plan(s, a) ==
    LET s0 == add_heading(break_before_section(s), T(2, "heading", "execution_plan", 0, 8), 16)
        body ==
            IF Has(a, "execution_plan")
            THEN LET execution == a["execution_plan"]
                     s1 == list_field(s0, 2, execution, "action_items", 7, cap_action_items)
                 IN  IF TruthyDict(execution, "resources_needed")
                     THEN LET res == execution["resources_needed"]
                              s2 == add_text(s1, T(2, "label", "resources_needed", 0, 7), 11, 60)
                              s3 == IF TruthyStr(res, "budget_range")
                                    THEN add_text(s2, T(2, "sub", "budget_range", 0,
                                                        4 + res["budget_range"]), 10, 70)
                                    ELSE s2
                          IN  IF TruthyStr(res, "personnel")
                              THEN add_text(s3, T(2, "sub", "personnel", 0,
                                                  4 + res["personnel"]), 10, 70)
                              ELSE s3
                     ELSE s1
            ELSE s0
    IN  gap(body)

\* (mutant) the heading drawn only when the section is present
communication_strategy_guarded(s, a) ==
    IF Has(a, "communication_strategy")
    THEN LET s0 == add_heading(break_before_section(s),
                               T(3, "heading", "communication_strategy", 0, 12), 16)
             comm == a["communication_strategy"]
             s1 == list_field(s0, 3, comm, "key_messages", 8, cap_key_messages)
         IN  gap(list_field(s1, 3, comm, "channels", 7, cap_channels))
    ELSE gap(s)

communication_strategy(s, a) ==
    LET s0 == add_heading(break_before_section(s),
                          T(3, "heading", "communication_strategy", 0, 12), 16)
        body ==
            IF Has(a, "communication_strategy")
            THEN LET comm == a["communication_strategy"]
                     s1 == list_field(s0, 3, comm, "key_messages", 8, cap_key_messages)
                 IN  list_field(s1, 3, comm, "channels", 7, cap_channels)
            ELSE s0
    IN  gap(body)

\* if key in briefs: label, then one line per field with b.get(field, '')
brief(s, briefs, key, label_len, fields) ==
    IF Has(briefs, key)
    THEN LET b == briefs[key]
             s1 == add_text(s, T(4, "label", key, 0, label_len), 11, 60)
             s2 == add_text(s1, T(4, "sub", fields[1].name, 0,
                                  fields[1].prefix + GetStr(b, fields[1].name)), 10, 70)
         IN  IF Len(fields) > 1
             THEN add_text(s2, T(4, "sub", fields[2].name, 0,
                                 fields[2].prefix + GetStr(b, fields[2].name)), 10, 70)
             ELSE s2
    ELSE s

content_briefs(s, a) ==
    LET s0 == add_heading(break_before_section(s), T(4, "heading", "content_briefs", 0, 13), 16)
        image_fields == << [name |-> "concept", prefix |-> 4],
                           [name |-> "scene_description", prefix |-> 4] >>
        body ==
            IF Has(a, "content_briefs")
            THEN LET briefs == a["content_briefs"]
                     s1 == brief(s0, briefs, "image_brief_1", 11, image_fields)
                     s2 == brief(s1, briefs, "image_brief_2", 11, image_fields)
                 IN  brief(s2, briefs, "video_brief", 8,
                           << [name |-> "narrative_arc", prefix |-> 5] >>)
            ELSE s0
    IN  gap(body)

marketing_materials(s, a) ==
    LET s0 == add_heading(break_before_section(s),
                          T(5, "heading", "marketing_materials", 0, 9), 16)
        body ==
            IF Has(a, "marketing_materials")
            THEN LET mk == a["marketing_materials"]
                     s1 == text_field(s0, 5, mk, "slogan", 6, 11)
                     s2 == text_field(s1, 5, mk, "tagline", 7, 10)
                     s3 == text_field(s2, 5, mk, "elevator_pitch", 11, 10)
                 IN  list_field(s3, 5, mk, "social_media_posts", 11, cap_social_media_posts)
            ELSE s0
    IN  gap(body)

performance_metrics(s, a) ==
    LET s0 == add_heading(break_before_section(s),
                          T(6, "heading", "performance_metrics", 0, 14), 16)
        body ==
            IF Has(a, "performance_metrics")
            THEN LET metrics == a["performance_metrics"]
                     s1 == list_field(s0, 6, metrics, "kpi_framework", 11, cap_kpi_framework)
                 IN  list_field(s1, 6, metrics, "success_criteria", 7, cap_success_criteria)
            ELSE s0
    IN  gap(body)

stakeholder_management(s, a) ==
    LET s0 == add_heading(break_before_section(s),
                          T(7, "heading", "stakeholder_management", 0, 11), 16)
        body ==
            IF Has(a, "stakeholder_management")
            THEN LET sh == a["stakeholder_management"]
                     s1 == list_field(s0, 7, sh, "stakeholders", 10, cap_stakeholders)
                 IN  list_field(s1, 7, sh, "objection_handling", 10, cap_objection_handling)
            ELSE s0
    IN  gap(body)


(***************************************************************************)
(* The image loop and the video prompt loop.                               *)
(***************************************************************************)
\* (mutant) the cursor lowered past the image box although nothing was drawn
image_try_moves(s, img, i) ==
    IF img = "ok"
    THEN LET c1 == drawImage(s.c, s.y, i)
             y1 == s.y - 220
             c2 == drawString(c1, 50, y1, T(8, "caption", "images", i, 5), 10, 0, 5)
         IN  [y |-> y1 - 30, c |-> c2, raised |-> FALSE]
    ELSE [y |-> s.y - 250, c |-> s.c, raised |-> FALSE]

\* (mutant) no except clause: the decode error leaves the function
image_try_raises(s, img, i) ==
    IF img = "ok"
    THEN LET c1 == drawImage(s.c, s.y, i)
             y1 == s.y - 220
             c2 == drawString(c1, 50, y1, T(8, "caption", "images", i, 5), 10, 0, 5)
         IN  [y |-> y1 - 30, c |-> c2, raised |-> FALSE]
    ELSE [y |-> s.y, c |-> s.c, raised |-> TRUE]

\* The try block of one image: ImageReader raises on a corrupt blob before
\* anything is drawn or the cursor moves, and `except: pass` swallows it.
image_try(s, img, i) ==
    IF img = "ok"
    THEN LET c1 == drawImage(s.c, s.y, i)
             y1 == s.y - 220
             c2 == drawString(c1, 50, y1, T(8, "caption", "images", i, 5), 10, 0, 5)
         IN  [y |-> y1 - 30, c |-> c2, raised |-> FALSE]
    ELSE [y |-> s.y, c |-> s.c, raised |-> FALSE]

\* (mutant) the page break of the section headings, y < 150, used for the images
image_step_low(s, img, i) ==
    image_try(IF s.y < 150 THEN new_page(s) ELSE s, img, i)

\* One iteration of `for idx, img_bytes in enumerate(images[:4], 1)`
image_step(s, img, i) ==
    image_try(IF s.y < 250 THEN new_page(s) ELSE s, img, i)

\* One iteration of `for idx, prompt in enumerate(video_prompts[:9], 1)`
prompt_step(s, prompt, i) ==
    LET s1 == break_before_section(s)
        s2 == add_text(s1, T(9, "label", "video_prompts", i, 6), 11, 60)
        s3 == add_text(s2, T(9, "item", "video_prompts", i, Min(prompt, 600)), 9, 70)
    IN  gap(s3)

(***************************************************************************)
(* The database.  A table is the sequence of its rows in insertion order;  *)
(* sqlite_sequence holds, per AUTOINCREMENT table, the largest id given    *)
(* out so far.  A text column holds the text's length, a timestamp column  *)
(* the clock reading it was formatted from.                                *)
(***************************************************************************)
\* init_database() on a fresh file: the four tables, all empty
EmptyDB ==
    [policies |-> <<>>, policy_contents |-> <<>>, policy_performance |-> <<>>,
     generated_media |-> <<>>,
     sqlite_sequence |-> [policies |-> 0, policy_contents |-> 0, generated_media |-> 0]]

\* INSERT INTO policies (...) VALUES (?, ?, ?, ?, 'draft', now, now); return cursor.lastrowid
create_policy(d, title, category, target_audience, description, now) ==
    LET id == d.sqlite_sequence.policies + 1
        row == [id |-> id, title |-> title, category |-> category,
                target_audience |-> target_audience, description |-> description,
                status |-> "draft", created_at |-> now, updated_at |-> now]
    IN  [db |-> [d EXCEPT !.policies = Append(@, row), !.sqlite_sequence.policies = id],
         lastrowid |-> id]

\* (mutant) the UPDATE without its WHERE clause
update_policy_status_all_rows(d, policy_id, status, now) ==
    [d EXCEPT !.policies =
        [k \in DOMAIN d.policies |->
            [d.policies[k] EXCEPT !.status = status, !.updated_at = now]]]

\* UPDATE policies SET status = ?, updated_at = ? WHERE id = ?
update_policy_status(d, policy_id, status, now) ==
    [d EXCEPT !.policies =
        [k \in DOMAIN d.policies |->
            IF d.policies[k].id = policy_id
            THEN [d.policies[k] EXCEPT !.status = status, !.updated_at = now]
            ELSE d.policies[k]]]

\* json.dumps(value, ensure_ascii=False): the text a column stores for a value
json_dumps(value) == [json |-> value]

\* INSERT INTO policy_contents (policy_id, content_type, content_data, metadata, created_at)
\* (metadata None is the empty dict: `metadata or {}`)
save_policy_content(d, policy_id, content_type, content_data, metadata, now) ==
    LET id == d.sqlite_sequence.policy_contents + 1
        row == [id |-> id, policy_id |-> policy_id, content_type |-> content_type,
                content_data |-> json_dumps(content_data), metadata |-> json_dumps(metadata),
                created_at |-> now]
    IN  [d EXCEPT !.policy_contents = Append(@, row), !.sqlite_sequence.policy_contents = id]

\* INSERT INTO generated_media (policy_id, media_type, media_data, prompt, generation_params, created_at)
save_generated_media(d, policy_id, media_type, media_data, prompt, params, now) ==
    LET id == d.sqlite_sequence.generated_media + 1
        row == [id |-> id, policy_id |-> policy_id, media_type |-> media_type,
                media_data |-> media_data, prompt |-> prompt,
                generation_params |-> json_dumps(params), created_at |-> now]
    IN  [d EXCEPT !.generated_media = Append(@, row), !.sqlite_sequence.generated_media = id]

(***************************************************************************)
(* The session.  None is 0 for current_policy_id (ids start at 1, and the  *)
(* code tests it by truth value) and [given |-> FALSE] for the analysis;   *)
(* the workflow steps are named by their meaning; a text is its length.    *)
(***************************************************************************)
\* the `defaults` of init_session_state()
Defaults ==
    [current_policy_id |-> 0, current_analysis |-> [given |-> FALSE],
     generated_images |-> <<>>, video_prompts_3styles |-> <<>>,
     workflow_step |-> "planning", show_results |-> FALSE,
     selected_category |-> 0, temp_selection |-> 0, active_tab |-> 0]

(***************************************************************************)
(* create_pdf_report as a state machine.  pc names the statement the call  *)
(* is at; `after` is the order of the statements in the function body.     *)
(***************************************************************************)
\* canvas.Canvas(buffer, pagesize=A4)
Canvas == [pages |-> 0, ops |-> <<>>, saved |-> FALSE]

\* (mutant) sections 3 and 4 in the other order
after_swapped(p) ==
    CASE p = "start" -> "cover_done"
      [] p = "cover_done" -> "s2"
      [] p = "s2" -> "s4"
      [] p = "s4" -> "s3"
      [] p = "s3" -> "s5"
      [] p = "s5" -> "s6"
      [] p = "s6" -> "s7"
      [] p = "s7" -> "s8"
      [] p = "s8" -> "s9"
      [] p = "s9" -> "save"
      [] p = "save" -> "done"

after(p) ==
    CASE p = "start" -> "cover_done"
      [] p = "cover_done" -> "s2"
      [] p = "s2" -> "s3"
      [] p = "s3" -> "s4"
      [] p = "s4" -> "s5"
      [] p = "s5" -> "s6"
      [] p = "s6" -> "s7"
      [] p = "s7" -> "s8"
      [] p = "s8" -> "s9"
      [] p = "s9" -> "save"
      [] p = "save" -> "done"

\* The font try block, then the cover block.
Cover ==
    /\ pc = "start"
    /\ registered' = (registered \/ cidFontAvailable)
    /\ font_name' = IF cidFontAvailable THEN "HYSMyeongJo-Medium" ELSE "Helvetica"
    /\ LET s == cover(Canvas, policy)
       IN  y' = s.y /\ c' = s.c
    /\ pc' = after(pc)
    /\ UNCHANGED <<outside, others, inputs, idx, result, calls, prev>>

\* (mutant) the export recorded in the policy row before returning
Return_updates_status ==
    /\ c' = [c EXCEPT !.saved = TRUE]
    /\ result' = "bytes"
    /\ calls' = calls + 1
    /\ pc' = "done"
    /\ db' = update_policy_status(db, session_state.current_policy_id, "exported", clock)
    /\ UNCHANGED <<session_state, clock, db_calls>>

\* c.save(); return buffer.read()
Return ==
    /\ c' = [c EXCEPT !.saved = TRUE]
    /\ result' = "bytes"
    /\ calls' = calls + 1
    /\ pc' = "done"
    /\ UNCHANGED outside

\* if not analysis: save and return
CoverOnly ==
    /\ pc = "cover_done"
    /\ NotAnalysis(analysis)
    /\ Return
    /\ UNCHANGED <<others, inputs, registered, font_name, y, idx, prev>>

\* A section operator applied to the current layout state.
Step(s) ==
    /\ y' = s.y
    /\ c' = s.c
    /\ pc' = after(pc)
    /\ UNCHANGED <<outside, others, inputs, registered, font_name, idx, result, calls, prev>>

PolicyPlanning ==
    /\ pc = "cover_done"
    /\ ~NotAnalysis(analysis)
    /\ Step(policy_planning(new_page(S(y, c)), analysis.map))

ExecutionPlan == pc = "s2" /\ Step(execution_plan(S(y, c), analysis.map))

CommunicationStrategy == pc = "s3" /\ Step(communication_strategy(S(y, c), analysis.map))

ContentBriefs == pc = "s4" /\ Step(content_briefs(S(y, c), analysis.map))

MarketingMaterials == pc = "s5" /\ Step(marketing_materials(S(y, c), analysis.map))

PerformanceMetrics == pc = "s6" /\ Step(performance_metrics(S(y, c), analysis.map))

StakeholderManagement == pc = "s7" /\ Step(stakeholder_management(S(y, c), analysis.map))

\* if images: page break if y < 150, heading 8, then the loop
ImagesHeading ==
    /\ pc = "s8"
    /\ IF images # <<>>
       THEN LET s == add_heading(break_before_section(S(y, c)),
                                 T(8, "heading", "images", 0, 10), 16)
            IN  y' = s.y /\ c' = s.c /\ idx' = 1 /\ pc' = "images"
       ELSE pc' = after(pc) /\ UNCHANGED <<y, c, idx>>
    /\ UNCHANGED <<outside, others, inputs, registered, font_name, result, calls, prev>>

DrawImage ==
    /\ pc = "images"
    /\ LET s == image_step(S(y, c), images[idx], idx)
       IN  /\ y' = s.y
           /\ c' = s.c
           /\ IF s.raised
              THEN pc' = "error" /\ result' = "exception" /\ idx' = idx
              ELSE /\ result' = result
                   /\ IF idx < Len(Take(images, cap_images))
                      THEN idx' = idx + 1 /\ pc' = "images"
                      ELSE idx' = idx /\ pc' = after("s8")
    /\ UNCHANGED <<outside, others, inputs, registered, font_name, calls, prev>>

\* if video_prompts: new page, heading 9, then the loop
VideoPromptsHeading ==
    /\ pc = "s9"
    /\ IF video_prompts # <<>>
       THEN LET s == add_heading(new_page(S(y, c)),
                                 T(9, "heading", "video_prompts", 0, 10), 16)
            IN  y' = s.y /\ c' = s.c /\ idx' = 1 /\ pc' = "prompts"
       ELSE pc' = after(pc) /\ UNCHANGED <<y, c, idx>>
    /\ UNCHANGED <<outside, others, inputs, registered, font_name, result, calls, prev>>

VideoPrompt ==
    /\ pc = "prompts"
    /\ LET s == prompt_step(S(y, c), video_prompts[idx], idx)
       IN  y' = s.y /\ c' = s.c
    /\ IF idx < Len(Take(video_prompts, cap_video_prompts))
       THEN idx' = idx + 1 /\ pc' = "prompts"
       ELSE idx' = idx /\ pc' = after("s9")
    /\ UNCHANGED <<outside, others, inputs, registered, font_name, result, calls, prev>>

Save ==
    /\ pc = "save"
    /\ Return
    /\ UNCHANGED <<others, inputs, registered, font_name, y, idx, prev>>

Next ==
    \/ Cover
    \/ CoverOnly
    \/ PolicyPlanning
    \/ ExecutionPlan
    \/ CommunicationStrategy
    \/ ContentBriefs
    \/ MarketingMaterials
    \/ PerformanceMetrics
    \/ StakeholderManagement
    \/ ImagesHeading
    \/ DrawImage
    \/ VideoPromptsHeading
    \/ VideoPrompt
    \/ Save


(***************************************************************************)
(* The arguments of a call.  The bounds below size the families of         *)
(* arguments the calls are drawn from.                                     *)
(***************************************************************************)
MaxItems == 9       \* longest list field (one more than the largest cap)
MaxImages == 5      \* longest image list (one more than the image cap)
MaxPrompts == 10    \* longest prompt list (one more than the prompt cap)
ShortLen == 10      \* a text that fits on one line
LongLen == 401      \* a text longer than add_text renders
HugeLen == 601      \* a prompt longer than the prompt[:600] slice

Sections == {"policy_planning", "execution_plan", "communication_strategy",
             "content_briefs", "marketing_materials", "performance_metrics",
             "stakeholder_management"}

Modes == {"none", "odd", "even", "all"}

\* The keys of `names` a dict keeps when `drop` names those it omits.
Kept(names, drop) ==
    {names[j] : j \in {k \in 1..Len(names) :
        CASE drop = "none" -> TRUE
          [] drop = "odd" -> k % 2 = 0
          [] drop = "even" -> k % 2 = 1
          [] drop = "all" -> FALSE}}

\* A dict with the fields `names`, field number k holding a text of length
\* len + k - 1, less the fields `drop` omits.
Dict(names, len, drop) ==
    LET pos(f) == CHOOSE k \in 1..Len(names) : names[k] = f
    IN  [f \in Kept(names, drop) |-> len + pos(f) - 1]

\* A list of n texts, all of different lengths.
Texts(n, len) == [i \in 1..n |-> len + i]

\* A list of n dicts, all of different field lengths.
Dicts(n, names, len, drop) == [i \in 1..n |-> Dict(names, len + i, drop)]

Restrict(f, keys) == [k \in keys |-> f[k]]

\* The value of section k: n items in every list, texts of length about len,
\* the section's own fields omitted as `drop` says and the fields of its
\* nested dicts as `inner` says.
SectionValue(k, n, len, drop, inner) ==
    CASE k = "policy_planning" ->
            Restrict([objective |-> len, target_analysis |-> len + 1,
                      key_strategies |-> Texts(n, len),
                      expected_outcomes |-> Texts(n, len)],
                     Kept(<<"objective", "target_analysis", "key_strategies",
                            "expected_outcomes">>, drop))
      [] k = "execution_plan" ->
            Restrict([action_items |-> Dicts(n, <<"action">>, len, inner),
                      resources_needed |-> Dict(<<"budget_range", "personnel">>, len, inner),
                      risk_management |-> Dicts(n, <<"risk", "impact", "mitigation">>,
                                                len, inner)],
                     Kept(<<"action_items", "resources_needed", "risk_management">>, drop))
      [] k = "communication_strategy" ->
            Restrict([key_messages |-> Texts(n, len),
                      channels |-> Dicts(n, <<"channel", "content_type">>, len, inner)],
                     Kept(<<"key_messages", "channels">>, drop))
      [] k = "content_briefs" ->
            Restrict([image_brief_1 |-> Dict(<<"concept", "scene_description">>, len, inner),
                      image_brief_2 |-> Dict(<<"concept", "scene_description">>, len + 2, inner),
                      video_brief |-> Dict(<<"narrative_arc">>, len, inner)],
                     Kept(<<"image_brief_1", "image_brief_2", "video_brief">>, drop))
      [] k = "marketing_materials" ->
            Restrict([slogan |-> len, tagline |-> len + 1, elevator_pitch |-> len + 2,
                      social_media_posts |-> Dicts(n, <<"platform", "content">>, len, inner)],
                     Kept(<<"slogan", "tagline", "elevator_pitch", "social_media_posts">>, drop))
      [] k = "performance_metrics" ->
            Restrict([kpi_framework |-> Dicts(n, <<"metric", "target_range">>, len, inner),
                      success_criteria |-> Texts(n, len)],
                     Kept(<<"kpi_framework", "success_criteria">>, drop))
      [] k = "stakeholder_management" ->
            Restrict([stakeholders |-> Dicts(n, <<"group", "interests">>, len, inner),
                      objection_handling |-> Dicts(n, <<"objection", "response">>, len, inner)],
                     Kept(<<"stakeholders", "objection_handling">>, drop))
      [] k = "summary" -> len

\* An analysis dict with the keys `keys` (sections, or the key "summary"
\* that create_pdf_report never reads).
Analysis(keys, n, len, drop, inner) ==
    [given |-> TRUE, map |-> [k \in keys |-> SectionValue(k, n, len, drop, inner)]]

None == [given |-> FALSE]

\* An analysis holding the objective of the planning section and nothing else.
ObjectiveOnly(len) == [given |-> TRUE, map |-> [policy_planning |-> [objective |-> len]]]

\* How the fields of the sections are filled.
Profiles ==
    {<<n, ShortLen, "none", "none">> : n \in 0..MaxItems}
    \cup {<<2, 0, "none", "none">>, <<2, LongLen, "none", "none">>}
    \cup {<<2, ShortLen, d, "none">> : d \in Modes \ {"none"}}
    \cup {<<2, ShortLen, "none", d>> : d \in Modes \ {"none"}}

\* The key sets every profile is tried with: all sections, one section
\* alone, all sections but one.
FocusKeys == {Sections} \cup {{k} : k \in Sections} \cup {Sections \ {k} : k \in Sections}

Analyses ==
    {None, Analysis({"summary"}, 0, ShortLen, "none", "none")}
    \cup {Analysis(keys, n, ShortLen, "none", "none") :
            keys \in SUBSET Sections, n \in {2, MaxItems}}
    \cup {Analysis(keys, p[1], p[2], p[3], p[4]) : keys \in FocusKeys, p \in Profiles}
    \cup {ObjectiveOnly(len) : len \in {ShortLen, LongLen}}

BaseAnalyses ==
    {None,
     Analysis({}, 0, ShortLen, "none", "none"),
     Analysis({"summary"}, 0, ShortLen, "none", "none"),
     Analysis(Sections, 2, ShortLen, "none", "none"),
     Analysis(Sections \cup {"summary"}, MaxItems, ShortLen, "none", "none")}

ImageLists == UNION {[1..n -> {"ok", "bad"}] : n \in 0..MaxImages}

PromptLists == {Texts(n, len) : n \in 0..MaxPrompts, len \in {0, ShortLen, LongLen, HugeLen}}

Policies ==
    {[title |-> 12, category |-> 8, target_audience |-> 2, created_at |-> 26],
     [title |-> 51, category |-> 61, target_audience |-> 0, created_at |-> 0]}

Policy0 == CHOOSE p \in Policies : p.title = 12

Arg(pol, a, imgs, prompts, font) ==
    [policy |-> pol, analysis |-> a, images |-> imgs, video_prompts |-> prompts,
     cidFontAvailable |-> font]

\* The calls the model makes: every analysis with no or one image, every
\* image list and every prompt list with a few analyses, and both policies
\* and both font outcomes with a few analyses.
Calls ==
    {Arg(Policy0, a, imgs, <<>>, TRUE) : a \in Analyses, imgs \in {<<>>, <<"ok">>}}
    \cup {Arg(Policy0, a, imgs, <<>>, TRUE) : a \in BaseAnalyses, imgs \in ImageLists}
    \cup {Arg(Policy0, a, <<>>, p, TRUE) : a \in BaseAnalyses, p \in PromptLists}
    \cup {Arg(pol, a, <<"ok", "bad", "ok">>, Texts(2, ShortLen), font) :
            pol \in Policies, a \in BaseAnalyses, font \in BOOLEAN}

\* The session and the database the export tab calls create_pdf_report from:
\* a saved policy, its analysis stored and current, its images in the session.
ExportSession(a, imgs) ==
    [Defaults EXCEPT !.current_policy_id = 1, !.current_analysis = a,
                     !.generated_images = [i \in DOMAIN imgs |-> [bytes |-> imgs[i]]],
                     !.workflow_step = "promotion", !.show_results = TRUE]

\* The analysis is stored only when there is one to store (`if analysis:`).
ExportDB(pol, a) ==
    LET saved == create_policy(EmptyDB, pol.title, pol.category, pol.target_audience,
                               ShortLen, 1).db
    IN  IF NotAnalysis(a)
        THEN saved
        ELSE save_policy_content(saved, 1, "analysis", a.map, <<>>, 1)

\* No call of the other functions is in progress.
OthersIdle ==
    /\ client = <<>>
    /\ requests = <<>>
    /\ returned = <<>>
    /\ args = <<>>
    /\ zipf = <<>>
    /\ pdf_bytes = [given |-> FALSE]

Init ==
    /\ \E arg \in Calls :
          /\ policy = arg.policy
          /\ analysis = arg.analysis
          /\ images = arg.images
          /\ video_prompts = arg.video_prompts
          /\ cidFontAvailable = arg.cidFontAvailable
    /\ registered = FALSE
    /\ font_name = "Helvetica"
    /\ c = Canvas
    /\ y = height - 50
    /\ idx = 0
    /\ pc = "start"
    /\ result = "none"
    /\ calls = 0
    /\ prev = [c |-> Canvas, font_name |-> "Helvetica", result |-> "none"]
    /\ db = ExportDB(policy, analysis)
    /\ session_state = ExportSession(analysis, images)
    /\ clock = 1
    /\ db_calls = <<>>
    /\ OthersIdle

Spec == Init /\ [][Next]_vars


(***************************************************************************)
(* The same call made again: the caller passes the same arguments, and     *)
(* the process keeps its font registry.  The locals of the finished call   *)
(* are dead; Cover sets every one of them afresh.                          *)
(***************************************************************************)
MaxCalls == 2

CallAgain ==
    /\ pc = "done"
    /\ calls < MaxCalls
    /\ prev' = [c |-> c, font_name |-> font_name, result |-> result]
    /\ pc' = "start"
    /\ result' = "none"
    /\ UNCHANGED <<outside, others, inputs, registered, font_name, c, y, idx, calls>>

RepeatCalls ==
    {Arg(pol, a, imgs, Texts(2, ShortLen), font) :
        pol \in Policies, a \in BaseAnalyses,
        imgs \in {<<>>, <<"ok", "bad", "ok">>}, font \in BOOLEAN}
    \cup {Arg(Policy0, Analysis(Sections, n, LongLen, "none", "none"), <<"ok">>, <<>>, TRUE) :
            n \in {1, MaxItems}}

InitRepeat ==
    /\ \E arg \in RepeatCalls :
          /\ policy = arg.policy
          /\ analysis = arg.analysis
          /\ images = arg.images
          /\ video_prompts = arg.video_prompts
          /\ cidFontAvailable = arg.cidFontAvailable
    /\ registered = FALSE
    /\ font_name = "Helvetica"
    /\ c = Canvas
    /\ y = height - 50
    /\ idx = 0
    /\ pc = "start"
    /\ result = "none"
    /\ calls = 0
    /\ prev = [c |-> Canvas, font_name |-> "Helvetica", result |-> "none"]
    /\ db = ExportDB(policy, analysis)
    /\ session_state = ExportSession(analysis, images)
    /\ clock = 1
    /\ db_calls = <<>>
    /\ OthersIdle

NextRepeat ==
    \/ Next
    \/ CallAgain

SpecRepeat == InitRepeat /\ [][NextRepeat]_vars

(***************************************************************************)
(* generate_policy_analysis and parse_json_response.  A response text is a *)
(* sequence of pieces: "ws" (white space), "fence_json" and "fence" (the   *)
(* code fences with and without the word json), and the bodies "object" (a *)
(* non-empty JSON object), "empty_object" ({}), "null" and "prose" (text   *)
(* that is not JSON).                                                      *)
(***************************************************************************)
JsonValues == {"object", "empty_object", "null"}

\* text.strip()
RECURSIVE lstrip(_)
lstrip(text) == IF text # <<>> /\ Head(text) = "ws" THEN lstrip(Tail(text)) ELSE text

RECURSIVE rstrip(_)
rstrip(text) ==
    IF text # <<>> /\ text[Len(text)] = "ws" THEN rstrip(SubSeq(text, 1, Len(text) - 1)) ELSE text

strip(text) == rstrip(lstrip(text))

\* json.loads(text): one JSON value, white space around it allowed
json_loads(text) ==
    LET t == strip(text)
    IN  IF Len(t) = 1 /\ t[1] \in JsonValues
        THEN [raised |-> FALSE, value |-> t[1]]
        ELSE [raised |-> TRUE, value |-> "None"]

\* bool(value) of what json.loads returned, or of None
Truthy(value) == value = "object"

\* strip; if the text starts with a fence, remove the fences and strip
\* again; json.loads, None if it raises (and None for the JSON null)
parse_json_response(text) ==
    LET t1 == strip(text)
        t2 == IF t1 # <<>> /\ t1[1] \in {"fence_json", "fence"}
              THEN strip(SelectSeq(t1, LAMBDA p : p \notin {"fence_json", "fence"}))
              ELSE t1
        r == json_loads(t2)
    IN  IF r.raised \/ r.value = "null" THEN "None" ELSE r.value

\* What the API does with a request: the call raises, or the message comes
\* back without content (content None), or with a text.
Raises == [raises |-> TRUE, given |-> FALSE, text |-> <<>>]
NoContent == [raises |-> FALSE, given |-> FALSE, text |-> <<>>]
WithContent(text) == [raises |-> FALSE, given |-> TRUE, text |-> text]

\* The request of the first call, and the retry that quotes the raw text.
first_request == [temperature |-> 7, quoted |-> <<>>]
retry_request(raw_text) == [temperature |-> 3, quoted |-> raw_text]

\* return None, f"Error: {str(e)}"
gpa_error == [parsed |-> "None", raw |-> <<"Error">>]

\* The first client.chat.completions.create, parse_json_response of its
\* content, and the return if the parse result is truthy.
FirstRequest ==
    /\ pc = "gpa_start"
    /\ requests' = Append(requests, first_request)
    /\ LET response == client[1]
       IN  IF response.raises \/ ~response.given
           THEN returned' = gpa_error /\ pc' = "gpa_done"
           ELSE LET parsed_data == parse_json_response(response.text)
                IN  IF Truthy(parsed_data)
                    THEN /\ returned' = [parsed |-> parsed_data, raw |-> response.text]
                         /\ pc' = "gpa_done"
                    ELSE returned' = returned /\ pc' = "gpa_retry"
    /\ UNCHANGED <<outside, inputs, registered, font_name, c, y, idx, result, calls, prev,
                   client, args, zipf, pdf_bytes>>

\* The retry: the second create, with the raw text quoted, and the return
\* of whatever its content parses to.
RetryRequest ==
    /\ pc = "gpa_retry"
    /\ requests' = Append(requests, retry_request(client[1].text))
    /\ LET retry_response == client[2]
       IN  IF retry_response.raises \/ ~retry_response.given
           THEN returned' = gpa_error
           ELSE returned' = [parsed |-> parse_json_response(retry_response.text),
                             raw |-> retry_response.text]
    /\ pc' = "gpa_done"
    /\ UNCHANGED <<outside, inputs, registered, font_name, c, y, idx, result, calls, prev,
                   client, args, zipf, pdf_bytes>>

NextAnalysis ==
    \/ FirstRequest
    \/ RetryRequest

Bodies == {"object", "empty_object", "null", "prose"}

\* The ways a body comes wrapped in a response.
Wrapped(b) ==
    {<<b>>, <<"ws", b, "ws">>, <<"fence_json", b, "fence">>,
     <<"ws", "fence", "ws", b, "ws", "fence", "ws">>,
     <<"prose", "fence_json", b, "fence">>, <<b, "ws", b>>}

Responses ==
    {Raises, NoContent, WithContent(<<>>)}
    \cup {WithContent(t) : t \in UNION {Wrapped(b) : b \in Bodies}}

\* Everything but the call of generate_policy_analysis is at rest.
RendererIdle ==
    /\ policy = Policy0
    /\ analysis = None
    /\ images = <<>>
    /\ video_prompts = <<>>
    /\ cidFontAvailable = TRUE
    /\ registered = FALSE
    /\ font_name = "Helvetica"
    /\ c = Canvas
    /\ y = height - 50
    /\ idx = 0
    /\ result = "none"
    /\ calls = 0
    /\ prev = [c |-> Canvas, font_name |-> "Helvetica", result |-> "none"]

OutsideIdle ==
    /\ db = EmptyDB
    /\ session_state = Defaults
    /\ clock = 1
    /\ db_calls = <<>>

InitAnalysis ==
    /\ RendererIdle
    /\ OutsideIdle
    /\ client \in [1..2 -> Responses]
    /\ requests = <<>>
    /\ returned = <<>>
    /\ args = <<>>
    /\ zipf = <<>>
    /\ pdf_bytes = [given |-> FALSE]
    /\ pc = "gpa_start"

SpecAnalysis == InitAnalysis /\ [][NextAnalysis]_vars

(***************************************************************************)
(* create_zip_export.  The archive is the sequence of the entries written, *)
(* each with its name (the file name pattern and the index in it, 0 if     *)
(* none) and its data.  The report's entry is named by the constant        *)
(* PDF_NAME, which stands for the Korean file name of line 996.            *)
(***************************************************************************)
PDF_NAME == "policy_report_full.pdf"

\* zipf.writestr(name, data)
writestr(z, file, i, data) == Append(z, [file |-> file, idx |-> i, data |-> data])

\* bool(pdf_bytes): None and b'' are falsy
TruthyBytes(b) == IF b.given THEN b.len > 0 ELSE FALSE

\* Where create_zip_export goes on after the two JSON entries, or after a loop.
zip_after(p) ==
    CASE p = "zip_start" /\ images # <<>> -> "zip_images"
      [] p \in {"zip_start", "zip_images"} /\ video_prompts # <<>> -> "zip_prompts"
      [] OTHER -> "zip_readme"

\* The report if there is one, then policy_info.json and analysis_full.json.
ZipStart ==
    /\ pc = "zip_start"
    /\ LET z1 == IF TruthyBytes(pdf_bytes)
                 THEN writestr(zipf, PDF_NAME, 0, pdf_bytes.len)
                 ELSE zipf
           z2 == writestr(z1, "policy_info.json", 0, json_dumps(policy))
       IN  zipf' = writestr(z2, "analysis_full.json", 0, json_dumps(analysis))
    /\ idx' = 1
    /\ pc' = zip_after(pc)
    /\ UNCHANGED <<outside, inputs, registered, font_name, c, y, result, calls, prev,
                   client, requests, returned, args, pdf_bytes>>

\* (mutant) the images cut to the four the report shows
ZipImage_capped ==
    /\ pc = "zip_images"
    /\ zipf' = writestr(zipf, "images/image_.png", idx, images[idx])
    /\ IF idx < Len(Take(images, cap_images))
       THEN idx' = idx + 1 /\ pc' = pc
       ELSE idx' = 1 /\ pc' = zip_after(pc)
    /\ UNCHANGED <<outside, inputs, registered, font_name, c, y, result, calls, prev,
                   client, requests, returned, args, pdf_bytes>>

\* One iteration of `for idx, img_bytes in enumerate(images, 1)`
ZipImage ==
    /\ pc = "zip_images"
    /\ zipf' = writestr(zipf, "images/image_.png", idx, images[idx])
    /\ IF idx < Len(images)
       THEN idx' = idx + 1 /\ pc' = pc
       ELSE idx' = 1 /\ pc' = zip_after(pc)
    /\ UNCHANGED <<outside, inputs, registered, font_name, c, y, result, calls, prev,
                   client, requests, returned, args, pdf_bytes>>

\* One iteration of `for idx, prompt in enumerate(video_prompts, 1)`
ZipPrompt ==
    /\ pc = "zip_prompts"
    /\ zipf' = writestr(zipf, "video_prompts/prompt_.txt", idx, video_prompts[idx])
    /\ IF idx < Len(video_prompts)
       THEN idx' = idx + 1 /\ pc' = pc
       ELSE idx' = 1 /\ pc' = zip_after(pc)
    /\ UNCHANGED <<outside, inputs, registered, font_name, c, y, result, calls, prev,
                   client, requests, returned, args, pdf_bytes>>

\* README.txt, with the policy's title and creation date; the archive is
\* closed and its bytes returned.
ZipReadme ==
    /\ pc = "zip_readme"
    /\ LET z == writestr(zipf, "README.txt", 0,
                         [title |-> policy.title, created_at |-> policy.created_at])
       IN  zipf' = z /\ returned' = z
    /\ pc' = "zip_done"
    /\ UNCHANGED <<outside, inputs, registered, font_name, c, y, idx, result, calls, prev,
                   client, requests, args, pdf_bytes>>

NextZip ==
    \/ ZipStart
    \/ ZipImage
    \/ ZipPrompt
    \/ ZipReadme

\* pdf_bytes: None, b'', or the bytes of a report
PdfArgs == {[given |-> FALSE, len |-> 0], [given |-> TRUE, len |-> 0],
            [given |-> TRUE, len |-> LongLen]}

ZipCalls ==
    {Arg(Policy0, a, imgs, <<>>, TRUE) : a \in BaseAnalyses, imgs \in ImageLists}
    \cup {Arg(pol, a, <<"bad", "ok">>, p, TRUE) :
            pol \in Policies, a \in {None, Analysis(Sections, 2, ShortLen, "none", "none")},
            p \in PromptLists}
    \cup {Arg(Policy0, None, imgs, Texts(MaxPrompts, HugeLen), TRUE) : imgs \in ImageLists}

InitZip ==
    /\ \E arg \in ZipCalls :
          /\ policy = arg.policy
          /\ analysis = arg.analysis
          /\ images = arg.images
          /\ video_prompts = arg.video_prompts
          /\ cidFontAvailable = arg.cidFontAvailable
    /\ pdf_bytes \in PdfArgs
    /\ zipf = <<>>
    /\ registered = FALSE
    /\ font_name = "Helvetica"
    /\ c = Canvas
    /\ y = height - 50
    /\ idx = 0
    /\ result = "none"
    /\ calls = 0
    /\ prev = [c |-> Canvas, font_name |-> "Helvetica", result |-> "none"]
    /\ db = ExportDB(policy, analysis)
    /\ session_state = ExportSession(analysis, images)
    /\ clock = 1
    /\ db_calls = <<>>
    /\ client = <<>>
    /\ requests = <<>>
    /\ returned = <<>>
    /\ args = <<>>
    /\ pc = "zip_start"

SpecZip == InitZip /\ [][NextZip]_vars

(***************************************************************************)
(* The database functions called in any order.  Every call reads the clock *)
(* (datetime.now()), which has moved on since the call before.             *)
(***************************************************************************)
MaxDbCalls == 4     \* calls made on the database in one run
MaxPolicyId == 3    \* largest policy id a call is made with

Statuses == {"draft", "active"}

\* The call recorded: the function, the policy id it was given or returned.
called(fn, id) == Append(db_calls, [fn |-> fn, id |-> id])

DbFrame ==
    UNCHANGED <<inputs, registered, font_name, c, y, idx, pc, result, calls, prev,
                session_state, others>>

CreatePolicy ==
    /\ Len(db_calls) < MaxDbCalls
    /\ \E title \in {ShortLen, LongLen} :
          LET r == create_policy(db, title, ShortLen, 2, ShortLen, clock)
          IN  db' = r.db /\ db_calls' = called("create_policy", r.lastrowid)
    /\ clock' = clock + 1
    /\ DbFrame

UpdatePolicyStatus ==
    /\ Len(db_calls) < MaxDbCalls
    /\ \E policy_id \in 1..MaxPolicyId, status \in Statuses :
          /\ db' = update_policy_status(db, policy_id, status, clock)
          /\ db_calls' = called("update_policy_status", policy_id)
    /\ clock' = clock + 1
    /\ DbFrame

SavePolicyContent ==
    /\ Len(db_calls) < MaxDbCalls
    /\ \E policy_id \in 1..MaxPolicyId :
          /\ db' = save_policy_content(db, policy_id, "analysis",
                                       ObjectiveOnly(ShortLen).map, <<>>, clock)
          /\ db_calls' = called("save_policy_content", policy_id)
    /\ clock' = clock + 1
    /\ DbFrame

SaveGeneratedMedia ==
    /\ Len(db_calls) < MaxDbCalls
    /\ \E policy_id \in 1..MaxPolicyId :
          /\ db' = save_generated_media(db, policy_id, "image", "ok", ShortLen, <<>>, clock)
          /\ db_calls' = called("save_generated_media", policy_id)
    /\ clock' = clock + 1
    /\ DbFrame

NextDB ==
    \/ CreatePolicy
    \/ UpdatePolicyStatus
    \/ SavePolicyContent
    \/ SaveGeneratedMedia

InitDB ==
    /\ RendererIdle
    /\ OutsideIdle
    /\ OthersIdle
    /\ pc = "db"

SpecDB == InitDB /\ [][NextDB]_vars

(***************************************************************************)
(* The layout helpers called on their own: add_heading and add_text with   *)
(* any cursor, text, size and indent, on a fresh canvas.                   *)
(***************************************************************************)
\* The cursors a helper is called with: the lower part of the page, where
\* the thresholds are, and the top of a page.
HelperYs == (0..200) \cup {height - 50}

\* The lengths of the texts: empty, short, around the 90 of text[:90], long.
HelperLens == {0, ShortLen, 89, 90, 91, LongLen}

\* The sizes: the default of add_heading, and the 16 every caller passes.
HeadingSizes == {14, 16}

AddHeading ==
    /\ pc = "helper_start"
    /\ args.fn = "add_heading"
    /\ LET s == add_heading(S(args.y, c), args.text, args.size)
       IN  c' = s.c /\ returned' = s.y
    /\ pc' = "helper_done"
    /\ UNCHANGED <<outside, inputs, registered, font_name, y, idx, result, calls, prev,
                   client, requests, args, zipf, pdf_bytes>>

\* The lengths of the texts add_text is given: empty, short, around one
\* chunk of either width, around the last chunk start and around 400.
TextLens == {0, ShortLen, 85, 86, 90, 91, 340, 341, 360, 361, 400, LongLen, 425, 426,
             450, 451, HugeLen}

\* The sizes and indents the callers of add_text pass (size 10 and indent 60
\* are the defaults).
TextSizes == {9, 10, 11}
TextIndents == {60, 70, 75}

AddText ==
    /\ pc = "helper_start"
    /\ args.fn = "add_text"
    /\ LET s == add_text(S(args.y, c), args.text, args.size, args.indent)
       IN  c' = s.c /\ returned' = s.y
    /\ pc' = "helper_done"
    /\ UNCHANGED <<outside, inputs, registered, font_name, y, idx, result, calls, prev,
                   client, requests, args, zipf, pdf_bytes>>

NextHelpers ==
    \/ AddHeading
    \/ AddText

InitHelpers ==
    /\ RendererIdle
    /\ OutsideIdle
    /\ client = <<>>
    /\ requests = <<>>
    /\ returned = <<>>
    /\ zipf = <<>>
    /\ pdf_bytes = [given |-> FALSE]
    /\ \/ args \in {[fn |-> "add_heading", y |-> y0,
                      text |-> T(1, "heading", "helper", 0, len), size |-> size] :
                        y0 \in HelperYs, len \in HelperLens, size \in HeadingSizes}
       \/ args \in {[fn |-> "add_text", y |-> y0,
                      text |-> T(1, "text", "helper", 0, len), size |-> size,
                      indent |-> indent] :
                        y0 \in HelperYs, len \in TextLens, size \in TextSizes,
                        indent \in TextIndents}
    /\ pc = "helper_start"

SpecHelpers == InitHelpers /\ [][NextHelpers]_vars

(***************************************************************************)
(* The Streamlit page: the handlers of its buttons, run on the session and *)
(* the database.  One action is one handler run, from the click to the     *)
(* end of the script run; the run a category button restarts with          *)
(* st.rerun() is a step of its own, since it is that run which moves the   *)
(* selection into the category field.  The workflow steps are named        *)
(* "planning", "execution", "promotion" and "performance" for the four     *)
(* Korean step names of line 1114, in that order.                          *)
(***************************************************************************)
MaxUiOps == 3       \* handler runs that write to the database or call an API

steps == <<"planning", "execution", "promotion", "performance">>

\* step_mapping: the tab each step button opens
step_mapping == [planning |-> 0, execution |-> 1, promotion |-> 2, performance |-> 4]

\* json.loads of the text json.dumps wrote into a column
json_loads_column(column) == column.json

\* SELECT * FROM policies WHERE id = ?; dict(row) or None
get_policy(d, policy_id) ==
    LET rows == SelectSeq(d.policies, LAMBDA row : row.id = policy_id)
    IN  IF rows = <<>> THEN [given |-> FALSE] ELSE [given |-> TRUE, row |-> rows[1]]

\* ORDER BY created_at DESC
RECURSIVE order_by_created_at_desc(_, _)
order_by_created_at_desc(rows, left) ==
    IF left = {} THEN <<>>
    ELSE LET k == CHOOSE k \in left :
                    \A j \in left : rows[k].created_at >= rows[j].created_at
         IN  <<rows[k]>> \o order_by_created_at_desc(rows, left \ {k})

\* SELECT * FROM policy_contents WHERE policy_id = ? ORDER BY created_at DESC,
\* each row with its content_data and metadata decoded
get_policy_contents(d, policy_id) ==
    LET found == SelectSeq(d.policy_contents, LAMBDA row : row.policy_id = policy_id)
        rows == order_by_created_at_desc(found, DOMAIN found)
    IN  [i \in DOMAIN rows |->
            [rows[i] EXCEPT !.content_data = json_loads_column(@),
                            !.metadata = json_loads_column(@)]]

\* SELECT * FROM generated_media WHERE policy_id = ? ORDER BY created_at DESC,
\* each row with its generation_params decoded
get_generated_media(d, policy_id) ==
    LET found == SelectSeq(d.generated_media, LAMBDA row : row.policy_id = policy_id)
        rows == order_by_created_at_desc(found, DOMAIN found)
    IN  [i \in DOMAIN rows |->
            [rows[i] EXCEPT !.generation_params = json_loads_column(@)]]

\* generate_policy_analysis as one call: the return value and the requests sent
generate_policy_analysis(cl) ==
    LET response == cl[1]
    IN  IF response.raises \/ ~response.given
        THEN [returned |-> gpa_error, requests |-> <<first_request>>]
        ELSE LET parsed_data == parse_json_response(response.text)
                 sent == <<first_request, retry_request(response.text)>>
                 retry_response == cl[2]
             IN  IF Truthy(parsed_data)
                 THEN [returned |-> [parsed |-> parsed_data, raw |-> response.text],
                       requests |-> <<first_request>>]
                 ELSE IF retry_response.raises \/ ~retry_response.given
                 THEN [returned |-> gpa_error, requests |-> sent]
                 ELSE [returned |-> [parsed |-> parse_json_response(retry_response.text),
                                     raw |-> retry_response.text],
                       requests |-> sent]

\* The object a response decodes to.  The model answers every request with a
\* text of its own: the n-th answer is told apart by n.
Answer(n) ==
    [given |-> TRUE,
     map |-> [policy_planning |-> [objective |-> n],
              content_briefs |-> [image_brief_1 |-> [concept |-> n],
                                  image_brief_2 |-> [concept |-> n + 1],
                                  video_brief |-> [narrative_arc |-> n]]]]

\* generate_image_prompt(brief): the four fields of the brief, each '' when
\* absent, in the fixed text of the template
generate_image_prompt(image_brief) ==
    GetStr(image_brief, "concept") + GetStr(image_brief, "scene_description")
    + GetStr(image_brief, "visual_style") + GetStr(image_brief, "key_message") + 300

\* generate_video_prompts_3styles(brief): the narrative and the call to
\* action, each '' when absent, in the fixed text of each of the three styles
generate_video_prompts_3styles(video_brief) ==
    LET filled == GetStr(video_brief, "narrative_arc") + GetStr(video_brief, "call_to_action")
    IN  [documentary |-> 700 + filled, cinematic |-> 710 + filled,
         modern_dynamic |-> 720 + filled]

\* bool(st.session_state.current_analysis)
AnalysisSet(ss) == ~NotAnalysis(ss.current_analysis)

\* bool(st.session_state.current_policy_id)
PolicySet(ss) == ss.current_policy_id # 0

\* The form of tab 1 as the user left it: title and description (lengths).
Forms == {[title |-> 12, description |-> ShortLen], [title |-> 12, description |-> 0]}

\* What a handler that does not export leaves alone.
UiFrame ==
    UNCHANGED <<inputs, registered, font_name, c, y, idx, result, calls, prev, db_calls,
                zipf, pdf_bytes>>

\* A sidebar step button: st.session_state.active_tab = step_mapping[step]
StepButton ==
    /\ pc = "ui"
    /\ \E i \in DOMAIN steps :
          session_state' = [session_state EXCEPT !.active_tab = step_mapping[steps[i]]]
    /\ UNCHANGED <<db, clock, client, requests, returned, args, pc>>
    /\ UiFrame

\* A category button: temp_selection is set and the script is restarted.
SelectCategory ==
    /\ pc = "ui"
    /\ session_state' = [session_state EXCEPT !.temp_selection = 20]
    /\ pc' = "rerun"
    /\ UNCHANGED <<db, clock, client, requests, returned, args>>
    /\ UiFrame

\* The restarted run: a pending selection moves into the category field.
Rerun ==
    /\ pc = "rerun"
    /\ session_state' =
          IF session_state.temp_selection # 0
          THEN [session_state EXCEPT !.selected_category = session_state.temp_selection,
                                     !.temp_selection = 0]
          ELSE session_state
    /\ pc' = "ui"
    /\ UNCHANGED <<db, clock, client, requests, returned, args>>
    /\ UiFrame

\* for content in contents: if content['content_type'] == 'analysis': ...
RECURSIVE load_analysis(_, _)
load_analysis(current, contents) ==
    IF contents = <<>> THEN current
    ELSE load_analysis(IF Head(contents).content_type = "analysis"
                       THEN [given |-> TRUE, map |-> Head(contents).content_data]
                       ELSE current,
                       Tail(contents))

\* for m in media: if m['media_type'] == 'image' and m['media_data']: append
load_images(media) ==
    LET kept == SelectSeq(media, LAMBDA m : m.media_type = "image" /\ m.media_data # 0)
    IN  [i \in DOMAIN kept |->
            [image |-> kept[i].media_data, bytes |-> kept[i].media_data, brief |-> "loaded"]]

\* (mutant) the load that also sets the workflow step to the last one
LoadPolicy_last_step ==
    /\ pc = "ui"
    /\ \E k \in DOMAIN db.policies :
          LET policy_row == db.policies[k]
          IN  session_state' =
                [session_state EXCEPT
                    !.current_policy_id = policy_row.id,
                    !.current_analysis = load_analysis(@, get_policy_contents(db, policy_row.id)),
                    !.generated_images = load_images(get_generated_media(db, policy_row.id)),
                    !.workflow_step = "performance"]
    /\ UNCHANGED <<db, clock, client, requests, returned, args, pc>>
    /\ UiFrame

\* The load button of a saved policy in the sidebar.
LoadPolicy ==
    /\ pc = "ui"
    /\ \E k \in DOMAIN db.policies :
          LET policy_row == db.policies[k]
          IN  session_state' =
                [session_state EXCEPT
                    !.current_policy_id = policy_row.id,
                    !.current_analysis = load_analysis(@, get_policy_contents(db, policy_row.id)),
                    !.generated_images = load_images(get_generated_media(db, policy_row.id))]
    /\ UNCHANGED <<db, clock, client, requests, returned, args, pc>>
    /\ UiFrame

\* (mutant) the reset that forgets the analysis
NewPolicy_keeps_analysis ==
    /\ pc = "ui"
    /\ session_state' =
          [session_state EXCEPT !.current_policy_id = 0,
                                !.generated_images = <<>>, !.video_prompts_3styles = <<>>,
                                !.selected_category = 0, !.temp_selection = 0,
                                !.workflow_step = "planning", !.show_results = FALSE]
    /\ UNCHANGED <<db, clock, client, requests, returned, args, pc>>
    /\ UiFrame

\* The start-new-policy button: six keys reset by the loop, then the step
\* and show_results.
NewPolicy ==
    /\ pc = "ui"
    /\ session_state' =
          [session_state EXCEPT !.current_policy_id = 0,
                                !.current_analysis = [given |-> FALSE],
                                !.generated_images = <<>>, !.video_prompts_3styles = <<>>,
                                !.selected_category = 0, !.temp_selection = 0,
                                !.workflow_step = "planning", !.show_results = FALSE]
    /\ UNCHANGED <<db, clock, client, requests, returned, args, pc>>
    /\ UiFrame

\* The save button of tab 1.
SavePolicy ==
    /\ pc = "ui"
    /\ clock <= MaxUiOps
    /\ \E form \in Forms :
          IF form.title = 0 \/ form.description = 0   \* not policy_title or not policy_description
          THEN UNCHANGED <<db, session_state>>
          ELSE LET created == create_policy(db, form.title, session_state.selected_category,
                                            2, form.description, clock)
               IN  /\ db' = created.db
                   /\ session_state' = [session_state EXCEPT
                                           !.current_policy_id = created.lastrowid,
                                           !.workflow_step = "execution"]
    /\ clock' = clock + 1
    /\ UNCHANGED <<client, requests, returned, args, pc>>
    /\ UiFrame

\* What the chat API does with the two requests of one analysis: an object
\* at once, no JSON either time, an empty object and then an exception, an
\* exception at once.
UiClients ==
    {<<WithContent(<<"fence_json", "object", "fence">>), Raises>>,
     <<WithContent(<<"prose">>), WithContent(<<"prose">>)>>,
     <<WithContent(<<"empty_object">>), Raises>>,
     <<Raises, Raises>>}

\* (mutant) the analysis kept in the session whether or not there is one
AnalysisButton_keeps_failure ==
    /\ pc = "ui"
    /\ clock <= MaxUiOps
    /\ \E form \in Forms, cl \in UiClients :
          IF form.title = 0 \/ form.description = 0   \* not policy_title or not policy_description
          THEN UNCHANGED <<db, session_state, returned>>
          ELSE LET created == create_policy(db, form.title, session_state.selected_category,
                                            2, form.description, clock)
                   d1 == IF PolicySet(session_state) THEN db ELSE created.db
                   policy_id == IF PolicySet(session_state)
                                THEN session_state.current_policy_id
                                ELSE created.lastrowid
                   call == generate_policy_analysis(cl)
               IN  /\ returned' = call.returned
                   /\ db' = d1
                   /\ session_state' = [session_state EXCEPT
                                           !.current_policy_id = policy_id,
                                           !.current_analysis = Answer(clock)]
    /\ clock' = clock + 1
    /\ UNCHANGED <<client, requests, args, pc>>
    /\ UiFrame

\* The AI analysis button of tab 1.
AnalysisButton ==
    /\ pc = "ui"
    /\ clock <= MaxUiOps
    /\ \E form \in Forms, cl \in UiClients :
          IF form.title = 0 \/ form.description = 0   \* not policy_title or not policy_description
          THEN UNCHANGED <<db, session_state, returned>>
          ELSE LET created == create_policy(db, form.title, session_state.selected_category,
                                            2, form.description, clock)
                   d1 == IF PolicySet(session_state) THEN db ELSE created.db
                   policy_id == IF PolicySet(session_state)
                                THEN session_state.current_policy_id
                                ELSE created.lastrowid
                   call == generate_policy_analysis(cl)
               IN  /\ returned' = call.returned
                   /\ IF Truthy(call.returned.parsed)
                      THEN /\ db' = save_policy_content(d1, policy_id, "analysis",
                                                        Answer(clock).map, <<>>, clock)
                           /\ session_state' = [session_state EXCEPT
                                                   !.current_policy_id = policy_id,
                                                   !.current_analysis = Answer(clock),
                                                   !.show_results = TRUE,
                                                   !.workflow_step = "promotion"]
                      ELSE /\ db' = d1
                           /\ session_state' = [session_state EXCEPT
                                                   !.current_policy_id = policy_id]
    /\ clock' = clock + 1
    /\ UNCHANGED <<client, requests, args, pc>>
    /\ UiFrame

\* current_analysis is truthy and holds content_briefs
HasBriefs(ss) ==
    IF AnalysisSet(ss) THEN Has(ss.current_analysis.map, "content_briefs") ELSE FALSE

\* (mutant) the image kept in the session only
GenerateImage_unsaved ==
    /\ pc = "ui"
    /\ clock <= MaxUiOps
    /\ HasBriefs(session_state)
    /\ \E key \in {"image_brief_1", "image_brief_2"}, ok \in BOOLEAN :
          LET briefs == session_state.current_analysis.map.content_briefs
          IN  IF Has(briefs, key) /\ ok
              THEN /\ session_state' = [session_state EXCEPT !.generated_images =
                          Append(@, [image |-> clock, bytes |-> clock, brief |-> key])]
                   /\ db' = db
              ELSE UNCHANGED <<db, session_state>>
    /\ clock' = clock + 1
    /\ UNCHANGED <<client, requests, returned, args, pc>>
    /\ UiFrame

\* The two image buttons of tab 3.  generate_policy_image returns None or an
\* image the API has not returned before (its bytes are told apart by the
\* clock reading).
GenerateImage ==
    /\ pc = "ui"
    /\ clock <= MaxUiOps
    /\ HasBriefs(session_state)
    /\ \E key \in {"image_brief_1", "image_brief_2"}, ok \in BOOLEAN :
          LET briefs == session_state.current_analysis.map.content_briefs
          IN  IF Has(briefs, key) /\ ok
              THEN /\ session_state' = [session_state EXCEPT !.generated_images =
                          Append(@, [image |-> clock, bytes |-> clock, brief |-> key])]
                   /\ db' = IF PolicySet(session_state)
                            THEN save_generated_media(db, session_state.current_policy_id,
                                    "image", clock, generate_image_prompt(briefs[key]),
                                    [size |-> "1024x1024", quality |-> "standard"], clock)
                            ELSE db
              ELSE UNCHANGED <<db, session_state>>
    /\ clock' = clock + 1
    /\ UNCHANGED <<client, requests, returned, args, pc>>
    /\ UiFrame

\* The video prompt button of tab 4.
GenerateVideoPrompts ==
    /\ pc = "ui"
    /\ clock <= MaxUiOps
    /\ HasBriefs(session_state)
    /\ Has(session_state.current_analysis.map.content_briefs, "video_brief")
    /\ session_state' = [session_state EXCEPT !.video_prompts_3styles =
          Append(@, generate_video_prompts_3styles(
                        session_state.current_analysis.map.content_briefs.video_brief))]
    /\ clock' = clock + 1
    /\ UNCHANGED <<db, client, requests, returned, args, pc>>
    /\ UiFrame

\* The three texts of each prompt set, each after its header line (15, 14
\* and 17 characters with the line break; prompt_set.get(style, '')).
RECURSIVE video_texts(_, _)
video_texts(sets, i) ==
    IF i > Len(sets) THEN <<>>
    ELSE <<15 + sets[i].documentary, 14 + sets[i].cinematic, 17 + sets[i].modern_dynamic>>
         \o video_texts(sets, i + 1)

\* The PDF and the ZIP button of tab 5: the arguments create_pdf_report (and
\* create_zip_export) are called with.  An export changes neither the
\* session nor the database, so the model follows a session up to its first
\* export and no further.
Export ==
    /\ pc = "ui"
    /\ PolicySet(session_state)
    /\ AnalysisSet(session_state)
    /\ \E button \in {"pdf", "zip"} :
          LET ss == session_state
              image_bytes == [i \in DOMAIN ss.generated_images |-> ss.generated_images[i].bytes]
              texts == video_texts(ss.video_prompts_3styles, 1)
          IN  args' = [fn |-> button,
                       policy |-> get_policy(db, ss.current_policy_id),
                       analysis |-> ss.current_analysis,
                       images |-> IF button = "pdf" /\ image_bytes = <<>>
                                  THEN [given |-> FALSE]      \* image_bytes if image_bytes else None
                                  ELSE [given |-> TRUE, list |-> image_bytes],
                       video_prompts |-> IF texts = <<>>
                                         THEN [given |-> FALSE]
                                         ELSE [given |-> TRUE, list |-> texts]]
    /\ registered' = (registered \/ cidFontAvailable)
    /\ pc' = "exported"
    /\ UNCHANGED <<db, session_state, clock, client, requests, returned>>
    /\ UNCHANGED <<inputs, font_name, c, y, idx, result, calls, prev, db_calls, zipf, pdf_bytes>>

NextUI ==
    \/ StepButton
    \/ SelectCategory
    \/ Rerun
    \/ LoadPolicy
    \/ NewPolicy
    \/ SavePolicy
    \/ AnalysisButton
    \/ GenerateImage
    \/ GenerateVideoPrompts
    \/ Export

\* The state after init_session_state() and init_database() in a new session.
InitUI ==
    /\ RendererIdle
    /\ OutsideIdle
    /\ client = <<>>
    /\ requests = <<>>
    /\ returned = <<>>
    /\ args = <<>>
    /\ zipf = <<>>
    /\ pdf_bytes = [given |-> FALSE]
    /\ pc = "ui"

SpecUI == InitUI /\ [][NextUI]_vars

(***************************************************************************)
(* What the properties below read off the canvas.                          *)
(***************************************************************************)
Finished == pc = "done"

\* The analysis argument is None or the empty dict.
AnalysisAbsent == IF analysis.given THEN DOMAIN analysis.map = {} ELSE TRUE

\* The section keys in the order of their headings, 1 to 7.
SectionKey == <<"policy_planning", "execution_plan", "communication_strategy",
                "content_briefs", "marketing_materials", "performance_metrics",
                "stakeholder_management">>

\* The draw calls of one part of the report, in the order they were made.
PartOps(p) == SelectSeq(c.ops, LAMBDA o : o.part = p)

\* The five lines of the cover block, on page 1, and nothing else.
CoverBlock == <<"report_title", "title", "category", "target_audience", "created_at">>

CoverAt(ops) ==
    /\ Len(ops) >= 5
    /\ \A i \in 1..5 : /\ ops[i].kind = "cover"
                       /\ ops[i].src = CoverBlock[i]
                       /\ ops[i].page = 1

OnlyCover == CoverAt(c.ops) /\ Len(c.ops) = 5 /\ c.pages = 0

(***************************************************************************)
(* C1.  Called with analysis None or empty, create_pdf_report draws only   *)
(* the cover block, on one page, saves and returns bytes: no heading, no   *)
(* image and no prompt block is drawn, whatever images and prompts were    *)
(* passed.                                                                 *)
(***************************************************************************)
C1_CoverOnlyWhenAnalysisAbsent ==
    AnalysisAbsent =>
        /\ pc \in {"start", "cover_done", "done"}
        /\ \A i \in DOMAIN c.ops : c.ops[i].part = 0
        /\ c.pages = 0
        /\ Finished => (OnlyCover /\ c.saved /\ result = "bytes")

C1_Witness ==
    /\ Finished
    /\ analysis.given
    /\ AnalysisAbsent
    /\ images # <<>>
    /\ video_prompts # <<>>


(***************************************************************************)
(* C2.  As claimed: for an analysis mapping with none of the seven section *)
(* keys, and no images and no text blocks, only the cover block is drawn.  *)
(***************************************************************************)
NoSectionKey == IF analysis.given THEN DOMAIN analysis.map \cap Sections = {} ELSE FALSE

C2_Original ==
    (NoSectionKey /\ images = <<>> /\ video_prompts = <<>>) =>
        \A i \in DOMAIN c.ops : c.ops[i].part = 0

\* The seven headings, one per section, in order on page 2, after the cover.
SevenHeadings ==
    /\ CoverAt(c.ops)
    /\ Len(c.ops) = 12
    /\ c.pages = 1
    /\ \A k \in 1..7 : /\ c.ops[5 + k].kind = "heading"
                       /\ c.ops[5 + k].part = k
                       /\ c.ops[5 + k].src = SectionKey[k]
                       /\ c.ops[5 + k].page = 2

(***************************************************************************)
(* C2, amended.  For an analysis mapping with none of the seven section    *)
(* keys, and no images and no text blocks: the empty mapping gives the     *)
(* cover block alone; a non-empty mapping (other keys only) gives the      *)
(* cover block and then the seven section headings on page 2, and no body  *)
(* line at all.                                                            *)
(***************************************************************************)
C2_CoverAndHeadingsOnly ==
    (NoSectionKey /\ images = <<>> /\ video_prompts = <<>>) =>
        /\ pc # "error"
        /\ \A i \in DOMAIN c.ops : c.ops[i].kind \in {"cover", "heading"}
        /\ Finished =>
              /\ result = "bytes"
              /\ IF DOMAIN analysis.map = {} THEN OnlyCover ELSE SevenHeadings

C2_Witness ==
    /\ Finished
    /\ NoSectionKey
    /\ DOMAIN analysis.map # {}
    /\ images = <<>>
    /\ video_prompts = <<>>

(***************************************************************************)
(* C3.  As claimed: a section whose key is absent from a non-empty         *)
(* analysis, while other sections are present, draws nothing, neither its  *)
(* heading nor a body line.                                                *)
(***************************************************************************)
\* Section k is absent while some other section is present.
AbsentAmongOthers(k) ==
    IF analysis.given
    THEN /\ SectionKey[k] \notin DOMAIN analysis.map
         /\ DOMAIN analysis.map \cap Sections # {}
    ELSE FALSE

SectionPresent(k) ==
    IF analysis.given THEN SectionKey[k] \in DOMAIN analysis.map ELSE FALSE

C3_Original ==
    \A k \in 1..7 : AbsentAmongOthers(k) => PartOps(k) = <<>>

\* What a sequence of draw calls shows, apart from where on which page.
Content(ops) ==
    [i \in DOMAIN ops |->
        <<ops[i].op, ops[i].kind, ops[i].src, ops[i].idx, ops[i].x, ops[i].size,
          ops[i].lo, ops[i].hi>>]

SectionOp(k, s, a) ==
    CASE k = 1 -> policy_planning(s, a)
      [] k = 2 -> execution_plan(s, a)
      [] k = 3 -> communication_strategy(s, a)
      [] k = 4 -> content_briefs(s, a)
      [] k = 5 -> marketing_materials(s, a)
      [] k = 6 -> performance_metrics(s, a)
      [] k = 7 -> stakeholder_management(s, a)

\* Section k rendered on a fresh page from an analysis holding it alone.
Alone(k) ==
    SectionOp(k, S(height - 50, Canvas), Restrict(analysis.map, {SectionKey[k]})).c.ops

(***************************************************************************)
(* C3, amended.  A section whose key is absent from a non-empty analysis,  *)
(* while other sections are present, still draws its numbered heading,     *)
(* once, and no body line; every section that is present draws the lines   *)
(* it draws when it is the only section of the analysis, in the same       *)
(* order.                                                                  *)
(***************************************************************************)
C3_AbsentSectionDrawsHeadingOnly ==
    \A k \in 1..7 :
        /\ AbsentAmongOthers(k) =>
              /\ \A i \in DOMAIN c.ops : c.ops[i].part = k => c.ops[i].kind = "heading"
              /\ Finished => Len(PartOps(k)) = 1
        /\ (Finished /\ SectionPresent(k)) => Content(PartOps(k)) = Content(Alone(k))

C3_Witness ==
    /\ Finished
    /\ \E k \in 1..7 : AbsentAmongOthers(k) /\ Len(PartOps(k)) = 1
    /\ \E k \in 1..7 : SectionPresent(k) /\ Len(PartOps(k)) > 3

(***************************************************************************)
(* C4.  The draw calls come in one order: the cover block, sections 1 to   *)
(* 7, the images, the text blocks.  Nothing of a later part is drawn       *)
(* before something of an earlier part, and pages only go forward.         *)
(***************************************************************************)
C4_FixedOrder ==
    /\ pc # "start" => CoverAt(c.ops)
    /\ \A i \in 1..(Len(c.ops) - 1) :
          /\ c.ops[i].part <= c.ops[i + 1].part
          /\ c.ops[i].page <= c.ops[i + 1].page

C4_Witness ==
    /\ Finished
    /\ \A p \in 0..9 : PartOps(p) # <<>>
    /\ \A k \in 1..7 : Len(PartOps(k)) > 1

C4_WitnessSomeAbsent ==
    /\ Finished
    /\ \E k \in 1..7 : AbsentAmongOthers(k)
    /\ \E k \in 1..7 : SectionPresent(k) /\ Len(PartOps(k)) > 1
    /\ PartOps(8) # <<>>


(***************************************************************************)
(* The list fields create_pdf_report renders, with the section each is     *)
(* in, and the caps the claims state.                                      *)
(***************************************************************************)
ListFields == {"key_strategies", "expected_outcomes", "action_items", "key_messages",
               "channels", "social_media_posts", "kpi_framework", "success_criteria",
               "stakeholders", "objection_handling"}

FieldSection ==
    [key_strategies |-> 1, expected_outcomes |-> 1, action_items |-> 2, key_messages |-> 3,
     channels |-> 3, social_media_posts |-> 5, kpi_framework |-> 6, success_criteria |-> 6,
     stakeholders |-> 7, objection_handling |-> 7]

ClaimedCap ==
    [key_strategies |-> 8, action_items |-> 8, key_messages |-> 8, kpi_framework |-> 8,
     expected_outcomes |-> 5, channels |-> 5, social_media_posts |-> 5,
     success_criteria |-> 5, stakeholders |-> 6, objection_handling |-> 4]

\* Field f is a key of its section, and the section a key of the analysis.
FieldPresent(f) ==
    IF SectionPresent(FieldSection[f])
    THEN f \in DOMAIN analysis.map[SectionKey[FieldSection[f]]]
    ELSE FALSE

\* The list the analysis holds in field f (empty if the field is absent).
InputList(f) ==
    IF FieldPresent(f) THEN analysis.map[SectionKey[FieldSection[f]]][f] ELSE <<>>

\* The length of the line an item is formatted to.
ItemLine(f, item) ==
    CASE f \in {"key_strategies", "key_messages"} -> 3 + item
      [] f \in {"expected_outcomes", "success_criteria"} -> 2 + item
      [] f = "action_items" -> 3 + GetStr(item, "action")
      [] f = "channels" -> 2 + GetStr(item, "channel") + 2 + GetStr(item, "content_type")
      [] f = "social_media_posts" -> 3 + GetStr(item, "platform") + 2 + GetStr(item, "content")
      [] f = "kpi_framework" -> 3 + GetStr(item, "metric")
      [] f = "stakeholders" -> 3 + GetStr(item, "group") + 2 + GetStr(item, "interests")
      [] f = "objection_handling" -> 6 + GetStr(item, "objection")

\* The first line drawn of every item of field f, in drawing order.
ItemOps(f) == SelectSeq(c.ops, LAMBDA o : o.kind = "item" /\ o.src = f /\ o.lo = 0)

(***************************************************************************)
(* C5.  Of a list field holding n items, exactly the first min(n, cap)     *)
(* are drawn, in their order: cap is 8 for key_strategies, action_items,   *)
(* key_messages and kpi_framework, 5 for expected_outcomes, channels,      *)
(* social_media_posts and success_criteria, 6 for stakeholders, 4 for      *)
(* objection_handling.  No item past the cap is ever drawn.                *)
(***************************************************************************)
C5_ListsCapped ==
    /\ \A i \in DOMAIN c.ops :
          (c.ops[i].kind = "item" /\ c.ops[i].part < 8) =>
              c.ops[i].idx <= ClaimedCap[c.ops[i].src]
    /\ Finished =>
          \A f \in ListFields :
              LET items == InputList(f)
                  m == Min(Len(items), ClaimedCap[f])
                  drawn == ItemOps(f)
              IN  /\ Len(drawn) = m
                  /\ \A i \in 1..m : /\ drawn[i].idx = i
                                     /\ drawn[i].part = FieldSection[f]
                                     /\ drawn[i].hi = Min(ItemLine(f, items[i]), 90)

C5_Witness ==
    /\ Finished
    /\ \A f \in ListFields : /\ Len(InputList(f)) > ClaimedCap[f]
                             /\ Len(ItemOps(f)) = ClaimedCap[f]

(***************************************************************************)
(* C6.  A section that is present with an empty list in one of its list    *)
(* fields still gets its numbered heading, and nothing is drawn for the    *)
(* empty list: no item and no label.                                       *)
(***************************************************************************)
EmptyList(f) == FieldPresent(f) /\ InputList(f) = <<>>

Headings(k) == SelectSeq(c.ops, LAMBDA o : o.kind = "heading" /\ o.part = k)

C6_EmptyListKeepsHeading ==
    \A f \in ListFields :
        EmptyList(f) =>
            /\ \A i \in DOMAIN c.ops :
                  c.ops[i].src = f => c.ops[i].kind \notin {"label", "item"}
            /\ Finished => /\ Len(Headings(FieldSection[f])) = 1
                           /\ Headings(FieldSection[f])[1].src = SectionKey[FieldSection[f]]

C6_Witness ==
    /\ Finished
    /\ \E f \in ListFields : /\ EmptyList(f)
                             /\ Len(Headings(FieldSection[f])) = 1
                             /\ Len(PartOps(FieldSection[f])) > 1

(***************************************************************************)
(* C7.  With more than 4 images, all decodable, and a non-empty analysis,  *)
(* exactly the first 4 are drawn, in input order, each followed by the     *)
(* caption with its 1-based index; the rest is dropped without error.      *)
(***************************************************************************)
AllDecodable == \A i \in DOMAIN images : images[i] = "ok"

ImageOps == SelectSeq(c.ops, LAMBDA o : o.op = "drawImage")

Captions == SelectSeq(c.ops, LAMBDA o : o.kind = "caption")

\* Every image drawn is followed at once by its caption, 20 points below the box.
CaptionFollows ==
    \A i \in DOMAIN c.ops :
        c.ops[i].op = "drawImage" =>
            /\ i < Len(c.ops)
            /\ c.ops[i + 1].kind = "caption"
            /\ c.ops[i + 1].idx = c.ops[i].idx
            /\ c.ops[i + 1].page = c.ops[i].page
            /\ c.ops[i + 1].y = c.ops[i].y - 20

FirstFour == 1..Min(Len(images), 4)

OneBadAmongFirstFour ==
    /\ ~AnalysisAbsent
    /\ Cardinality({i \in FirstFour : images[i] = "bad"}) = 1
    /\ \E i \in FirstFour : images[i] = "ok"

\* The positions of the valid images among the first four, in input order.
RECURSIVE ValidPositions(_)
ValidPositions(i) ==
    IF i > Min(Len(images), 4) THEN <<>>
    ELSE (IF images[i] = "ok" THEN <<i>> ELSE <<>>) \o ValidPositions(i + 1)

\* The final document: the valid images and their captions, then the text blocks.
ValidImagesDrawn ==
    /\ result = "bytes"
    /\ c.saved
    /\ CaptionFollows
    /\ [i \in DOMAIN ImageOps |-> ImageOps[i].idx] = ValidPositions(1)
    /\ [i \in DOMAIN Captions |-> Captions[i].idx] = ValidPositions(1)
    /\ video_prompts # <<>> => PartOps(9) # <<>>

\* The image loop is at a blob that does not decode.
AtBadImage == pc = "images" /\ images[idx] = "bad"

C9_NeverAborts ==
    /\ pc \in {"start", "cover_done", "s2", "s3", "s4", "s5", "s6", "s7", "s8", "images",
               "s9", "prompts", "save", "done"}
    /\ result # "exception"
    /\ pc = "images" => idx \in 1..Min(Len(images), 4)
    /\ pc = "prompts" => idx \in 1..Min(Len(video_prompts), 9)
    /\ Finished <=> result = "bytes"
    /\ Finished => c.saved

C9_Witness ==
    /\ Finished
    /\ result = "bytes"
    /\ \E i \in DOMAIN images : images[i] = "bad"
    /\ \E i \in DOMAIN images : images[i] = "ok"
    /\ Len(InputList("key_strategies")) > 8
    /\ "summary" \in DOMAIN analysis.map

DocumentPages ==
    c.pages + (IF \E i \in DOMAIN c.ops : c.ops[i].page = c.pages + 1 THEN 1 ELSE 0)

\* policy_planning.objective holds a text.
ObjectiveGiven ==
    IF SectionPresent(1) THEN TruthyStr(analysis.map["policy_planning"], "objective") ELSE FALSE

\* The analysis holds policy_planning.objective and nothing else.
OnlyObjective ==
    IF analysis.given
    THEN /\ DOMAIN analysis.map = {"policy_planning"}
         /\ DOMAIN analysis.map["policy_planning"] = {"objective"}
         /\ analysis.map["policy_planning"]["objective"] > 0
    ELSE FALSE

(***************************************************************************)
(* C11.  With a non-empty analysis: page 1 holds the cover block (with the *)
(* policy title, cut to 50 characters) and nothing else; the first draw of *)
(* page 2 is the heading of section 1, at the top of the page; when        *)
(* policy_planning.objective holds a text, the draw after that heading is  *)
(* the objective, on page 2 as well; and with the objective as the only    *)
(* content of the analysis, no images and no text blocks, the document has *)
(* exactly two pages.                                                      *)
(***************************************************************************)
C11_CoverThenPlanning ==
    (~AnalysisAbsent /\ pc # "start") =>
        /\ CoverAt(c.ops)
        /\ c.ops[2].hi = 4 + Min(policy.title, 50)
        /\ \A i \in DOMAIN c.ops : c.ops[i].page = 1 <=> i <= 5
        /\ pc # "cover_done" =>
              /\ Len(c.ops) >= 6
              /\ c.ops[6].kind = "heading" /\ c.ops[6].part = 1
              /\ c.ops[6].page = 2 /\ c.ops[6].y = height - 50
              /\ ObjectiveGiven =>
                    /\ Len(c.ops) >= 7
                    /\ c.ops[7].kind = "text" /\ c.ops[7].src = "objective"
                    /\ c.ops[7].lo = 0 /\ c.ops[7].page = 2
                    /\ c.ops[7].y < c.ops[6].y
        /\ (Finished /\ OnlyObjective /\ images = <<>> /\ video_prompts = <<>>) =>
              /\ DocumentPages = 2
              /\ \A i \in DOMAIN c.ops : c.ops[i].page <= 2

C11_Witness ==
    /\ Finished
    /\ OnlyObjective
    /\ images = <<>>
    /\ video_prompts = <<>>
    /\ Len(c.ops) = 5 + 1 + 5 + 6
    /\ DocumentPages = 2

(***************************************************************************)
(* The list execution_plan.risk_management of the analysis (empty if the   *)
(* section or the field is absent), and what section 2 draws.              *)
(***************************************************************************)
RiskList ==
    IF SectionPresent(2)
    THEN IF Has(analysis.map["execution_plan"], "risk_management")
         THEN analysis.map["execution_plan"]["risk_management"]
         ELSE <<>>
    ELSE <<>>

RiskOps == SelectSeq(c.ops, LAMBDA o : o.src \in {"risk_management", "risk", "impact",
                                                   "mitigation"})

ExecutionSources == {"execution_plan", "action_items", "resources_needed", "budget_range",
                     "personnel"}

\* Every rendered list that holds items shows at least one and at most its cap.
TenListsWithinCaps ==
    \A f \in ListFields :
        /\ ClaimedCap[f] \in 4..8
        /\ InputList(f) # <<>> =>
              /\ Len(ItemOps(f)) >= 1
              /\ Len(ItemOps(f)) <= ClaimedCap[f]

(***************************************************************************)
(* C12.  As claimed: each of the eleven list kinds, the risks among them,  *)
(* shows between one item and its cap (4 to 8) of items when it holds      *)
(* items; a non-empty execution_plan.risk_management is rendered.          *)
(***************************************************************************)
C12_Original ==
    Finished =>
        /\ TenListsWithinCaps
        /\ RiskList # <<>> => RiskOps # <<>>

(***************************************************************************)
(* C12, amended.  Each of the ten list kinds create_pdf_report renders     *)
(* (strategies, outcomes, action items, messages, channels, posts, KPIs,   *)
(* criteria, stakeholders, objections) shows between one item and its cap  *)
(* (4 to 8) of items when it holds items.  The risks are not among them:   *)
(* nothing is ever drawn for execution_plan.risk_management, and section 2 *)
(* draws its heading, the action items and the resources only.             *)
(***************************************************************************)
C12_TenListsRenderedRisksNot ==
    /\ RiskOps = <<>>
    /\ \A i \in DOMAIN c.ops : c.ops[i].part = 2 => c.ops[i].src \in ExecutionSources
    /\ Finished => TenListsWithinCaps

C12_Witness ==
    /\ Finished
    /\ RiskList # <<>>
    /\ Len(PartOps(2)) > 3
    /\ \A f \in ListFields : InputList(f) # <<>> /\ Len(ItemOps(f)) >= 1
    /\ \E f \in ListFields : Len(ItemOps(f)) < ClaimedCap[f]

(***************************************************************************)
(* The text blocks as drawn: the labels, and the lines of block i.         *)
(***************************************************************************)
PromptLabels == SelectSeq(c.ops, LAMBDA o : o.part = 9 /\ o.kind = "label")

PromptLines(i) == SelectSeq(c.ops, LAMBDA o : o.part = 9 /\ o.kind = "item" /\ o.idx = i)

\* The lines of block i are consecutive 90-character chunks from the start
\* of the text, at most five of them, and stop where the text is cut.
PromptCut(i) ==
    LET lines == PromptLines(i)
        len == video_prompts[i]
    IN  /\ Len(lines) <= 5
        /\ Len(lines) = (Min(len, 400) + 89) \div 90
        /\ \A k \in DOMAIN lines : /\ lines[k].lo = 90 * (k - 1)
                                    /\ lines[k].hi = Min(90 * k, len)
                                    /\ lines[k].x = 70
        /\ lines # <<>> => lines[Len(lines)].hi = Min(len, 450)

\* In drawing order: the heading, then label 1, lines 1, label 2, lines 2, ...
PromptOrder ==
    LET ops == PartOps(9)
    IN  \A j \in 2..Len(ops) :
            /\ ops[j].idx >= 1
            /\ IF ops[j].kind = "label"
               THEN ops[j].idx = ops[j - 1].idx + 1
               ELSE ops[j].kind = "item" /\ ops[j].idx = ops[j - 1].idx

(***************************************************************************)
(* C13.  Given m text blocks and a non-empty analysis, the first           *)
(* min(m, 9) blocks are rendered, in input order, each under a label with  *)
(* its 1-based index; no block past the 9th is drawn and the call returns  *)
(* normally; a long block is cut (at most five lines of 90 characters are  *)
(* drawn, the rest of the text is dropped).                                *)
(***************************************************************************)
C13_FirstNinePrompts ==
    ~AnalysisAbsent =>
        /\ pc # "error"
        /\ \A i \in DOMAIN c.ops : c.ops[i].part = 9 => c.ops[i].idx <= 9
        /\ PromptOrder
        /\ Finished =>
              /\ result = "bytes"
              /\ Len(PromptLabels) = Min(Len(video_prompts), 9)
              /\ \A i \in DOMAIN PromptLabels : PromptLabels[i].idx = i /\ PromptCut(i)
              /\ \A i \in DOMAIN video_prompts : i > 9 => PromptLines(i) = <<>>

C13_Witness ==
    /\ Finished
    /\ ~AnalysisAbsent
    /\ Len(video_prompts) > 9
    /\ Len(PromptLabels) = 9
    /\ video_prompts[9] > 600
    /\ PromptLines(9)[5].hi = 450

C15_TextSectionsOnly ==
    \A p \in (1..7) \cup {9} :
        LET ops == PartOps(p)
        IN  Len(ops) >= 2 => (ops[1].kind = "heading" /\ ops[2].page = ops[1].page)

(***************************************************************************)
(* C16.  As claimed: no step of create_pdf_report changes its arguments,   *)
(* the database or the session, and nothing but the locals of the call     *)
(* (the cursor, the canvas, the loop index, the position) changes at all.  *)
(***************************************************************************)
C16_Original ==
    [][/\ UNCHANGED <<policy, analysis, images, video_prompts>>
       /\ UNCHANGED <<db, db_calls, session_state>>
       /\ UNCHANGED registered]_vars

(***************************************************************************)
(* C16, amended.  No step of create_pdf_report changes its arguments, the  *)
(* database (no call on it is made) or the session.  Besides the locals of *)
(* the call, one thing outside the call does change: the font try block at *)
(* the start of the call registers the CID font in the process-wide font   *)
(* registry of pdfmetrics, when the font can be built.                     *)
(***************************************************************************)
C16_ReadsOnlyButRegistersFont ==
    [][/\ UNCHANGED <<policy, analysis, images, video_prompts>>
       /\ UNCHANGED <<db, db_calls, session_state>>
       /\ registered' # registered =>
             (pc = "start" /\ cidFontAvailable /\ registered')]_vars

C16_Witness ==
    /\ Finished
    /\ registered
    /\ c.pages > 1
    /\ analysis.given
    /\ session_state.current_analysis = analysis
    /\ Len(session_state.generated_images) > 1
    /\ Len(db.policies) = 1
    /\ Len(db.policy_contents) = 1
    /\ db.policies[1].status = "draft"

(***************************************************************************)
(* What the first response is, as a text.                                  *)
(***************************************************************************)
\* The first response came back with a text that is valid JSON once the
\* fences parse_json_response knows are removed.
FirstParses ==
    /\ ~client[1].raises
    /\ client[1].given
    /\ LET t1 == strip(client[1].text)
           t2 == IF t1 # <<>> /\ t1[1] \in {"fence_json", "fence"}
                 THEN SelectSeq(t1, LAMBDA p : p \notin {"fence_json", "fence"})
                 ELSE t1
       IN  ~json_loads(t2).raised

AnalysisReturned == pc = "gpa_done"

(***************************************************************************)
(* C17.  One call of generate_policy_analysis sends at most two requests;  *)
(* the second, the retry, is sent only when the first response is not      *)
(* valid JSON, and once; what the retry parses to (None included) is       *)
(* returned with no further request; when the first response parses, no    *)
(* second request is sent.                                                 *)
(***************************************************************************)
C17_OneRetryOnInvalidJson ==
    /\ Len(requests) <= 2
    /\ Len(requests) = 2 => ~FirstParses
    /\ (AnalysisReturned /\ FirstParses) => Len(requests) = 1
    /\ (AnalysisReturned /\ Len(requests) = 2) =>
          returned = (IF client[2].raises \/ ~client[2].given
                      THEN gpa_error
                      ELSE [parsed |-> parse_json_response(client[2].text),
                            raw |-> client[2].text])

\* What does hold: the retry is sent exactly when the first response came
\* back with a text whose parse result is falsy (no JSON, or {} or null).
C17_OneRetryOnFalsyParse ==
    /\ Len(requests) <= 2
    /\ AnalysisReturned =>
          /\ Len(requests) >= 1
          /\ Len(requests) = 2 <=>
                (/\ ~client[1].raises
                 /\ client[1].given
                 /\ ~Truthy(parse_json_response(client[1].text)))
          /\ Len(requests) = 2 =>
                /\ requests[2] = retry_request(client[1].text)
                /\ returned = (IF client[2].raises \/ ~client[2].given
                                THEN gpa_error
                                ELSE [parsed |-> parse_json_response(client[2].text),
                                      raw |-> client[2].text])
          /\ Len(requests) = 1 =>
                returned = (IF client[1].raises \/ ~client[1].given
                            THEN gpa_error
                            ELSE [parsed |-> "object", raw |-> client[1].text])

(***************************************************************************)
(* The entries of the archive.                                             *)
(***************************************************************************)
ZipDone == pc = "zip_done"

EntryNames == {<<zipf[k].file, zipf[k].idx>> : k \in DOMAIN zipf}

\* The names the archive is to hold, for the arguments of the call.
ExpectedNames ==
    {<<"README.txt", 0>>, <<"policy_info.json", 0>>, <<"analysis_full.json", 0>>}
    \cup (IF TruthyBytes(pdf_bytes) THEN {<<PDF_NAME, 0>>} ELSE {})
    \cup {<<"images/image_.png", i>> : i \in 1..Len(images)}
    \cup {<<"video_prompts/prompt_.txt", j>> : j \in 1..Len(video_prompts)}

(***************************************************************************)
(* C18.  The archive create_zip_export returns holds exactly README.txt,   *)
(* policy_info.json, analysis_full.json, the report iff pdf_bytes is not   *)
(* empty, images/image_i.png for every image i (all of them, 1-based, in   *)
(* order) and video_prompts/prompt_j.txt for every text block j (all of    *)
(* them); each name once; every image entry holds the image's bytes and    *)
(* every text entry the whole text.                                        *)
(***************************************************************************)
C18_ArchiveEntries ==
    /\ EntryNames \subseteq ExpectedNames
    /\ \A k \in DOMAIN zipf :
          /\ zipf[k].file = "images/image_.png" => zipf[k].data = images[zipf[k].idx]
          /\ zipf[k].file = "video_prompts/prompt_.txt" =>
                zipf[k].data = video_prompts[zipf[k].idx]
          /\ \A j \in DOMAIN zipf :
                (zipf[j].file = zipf[k].file /\ zipf[j].idx = zipf[k].idx) => j = k
          /\ \A j \in DOMAIN zipf :
                (j < k /\ zipf[j].file = zipf[k].file) => zipf[j].idx < zipf[k].idx
    /\ ZipDone => (EntryNames = ExpectedNames /\ returned = zipf)

C18_Witness ==
    /\ ZipDone
    /\ Len(images) > 4
    /\ Len(video_prompts) > 9
    /\ TruthyBytes(pdf_bytes)
    /\ Len(zipf) = 4 + Len(images) + Len(video_prompts)
    /\ \E k \in DOMAIN zipf : zipf[k].file = "video_prompts/prompt_.txt" /\ zipf[k].data > 600
    /\ \E k \in DOMAIN zipf : zipf[k].file = "images/image_.png" /\ zipf[k].data = "bad"

(***************************************************************************)
(* The policies table against the calls made.                              *)
(***************************************************************************)
Creates == SelectSeq(db_calls, LAMBDA call : call.fn = "create_policy")

StatusCalledFor(id) ==
    \E k \in DOMAIN db_calls : db_calls[k].fn = "update_policy_status" /\ db_calls[k].id = id

\* Every row has the id create_policy returned for it, no two rows the
\* same one, and the status 'draft' unless update_policy_status was called
\* for its id.
PolicyRowsSound ==
    /\ Len(db.policies) = Len(Creates)
    /\ \A k \in DOMAIN db.policies :
          /\ db.policies[k].id = Creates[k].id
          /\ \A j \in DOMAIN db.policies : db.policies[j].id = db.policies[k].id => j = k
          /\ db.policies[k].status # "draft" => StatusCalledFor(db.policies[k].id)

\* The step is a call of update_policy_status.
IsStatusCall ==
    /\ Len(db_calls') = Len(db_calls) + 1
    /\ db_calls'[Len(db_calls')].fn = "update_policy_status"

\* The row as it is apart from status and updated_at.
Fixed(row) ==
    [f \in DOMAIN row \ {"status", "updated_at"} |-> row[f]]

(***************************************************************************)
(* C19.  After any sequence of create_policy, update_policy_status,        *)
(* save_policy_content and save_generated_media calls, every policy row    *)
(* has a unique id, the one returned at its creation and never changed,    *)
(* and status 'draft' unless update_policy_status was called for that id;  *)
(* a call of update_policy_status changes status and updated_at of the row *)
(* addressed and nothing else: no other field, no other row, no other      *)
(* table.                                                                  *)
(***************************************************************************)
C19_PolicyRows ==
    [][/\ PolicyRowsSound'
       /\ \A k \in DOMAIN db.policies :
             /\ k \in DOMAIN db'.policies
             /\ db'.policies[k].id = db.policies[k].id
       /\ IsStatusCall =>
             LET id == db_calls'[Len(db_calls')].id
             IN  /\ DOMAIN db'.policies = DOMAIN db.policies
                 /\ \A k \in DOMAIN db.policies :
                       IF db.policies[k].id = id
                       THEN Fixed(db'.policies[k]) = Fixed(db.policies[k])
                       ELSE db'.policies[k] = db.policies[k]
                 /\ db'.policy_contents = db.policy_contents
                 /\ db'.generated_media = db.generated_media
                 /\ db'.policy_performance = db.policy_performance
                 /\ db'.sqlite_sequence = db.sqlite_sequence]_vars

C19_Witness ==
    /\ Len(db.policies) = 2
    /\ db.policies[1].status = "draft"
    /\ db.policies[2].status = "active"
    /\ db.policies[2].updated_at > db.policies[2].created_at
    /\ db.policies[1].updated_at = db.policies[1].created_at
    /\ Len(db.policy_contents) + Len(db.generated_media) = 1

(***************************************************************************)
(* C20.  add_heading(y, text, size) starts a new page exactly when         *)
(* y < 100, and then draws at the top of the new page, height - 50;        *)
(* otherwise it draws at y.  It makes one draw call: the first 90          *)
(* characters of text (all of a shorter text), at x = 50, in the size      *)
(* given.  It returns the y it drew at minus (size + 15).                  *)
(***************************************************************************)
C20_AddHeading ==
    [][(pc = "helper_start" /\ args.fn = "add_heading") =>
          LET at == IF args.y < 100 THEN height - 50 ELSE args.y
              n == Len(c.ops)
          IN  /\ c'.pages = (IF args.y < 100 THEN c.pages + 1 ELSE c.pages)
              /\ Len(c'.ops) = n + 1
              /\ SubSeq(c'.ops, 1, n) = c.ops
              /\ c'.ops[n + 1].op = "drawString"
              /\ c'.ops[n + 1].x = 50
              /\ c'.ops[n + 1].y = at
              /\ c'.ops[n + 1].page = c'.pages + 1
              /\ c'.ops[n + 1].size = args.size
              /\ c'.ops[n + 1].lo = 0
              /\ c'.ops[n + 1].hi = Min(args.text.len, 90)
              /\ returned' = at - (args.size + 15)]_vars

C20_Witness ==
    /\ pc = "helper_done"
    /\ args.fn = "add_heading"
    /\ args.y = 99
    /\ args.text.len > 90
    /\ c.pages = 1
    /\ c.ops[1].hi = 90
    /\ returned = height - 50 - (args.size + 15)

(***************************************************************************)
(* C21.  add_text(y, text, size, indent) cuts the text into consecutive    *)
(* chunks of 85 characters when indent = 60 and of 90 otherwise.  It       *)
(* starts a new page on entry when y < 80, and before a chunk when the     *)
(* cursor is below 60.  Each chunk is drawn at the cursor, at x = indent,  *)
(* and lowers the cursor by size + 4.  The call returns the cursor after   *)
(* the last chunk minus 5: y - k * (size + 4) - 5 for k chunks and no page *)
(* break, and counted from the top of the page after a page break.         *)
(***************************************************************************)
\* The draw calls made on the last page drawn on.
OnLastPage(ops) == SelectSeq(ops, LAMBDA o : o.page = ops[Len(ops)].page)

C21_AddText ==
    [][(pc = "helper_start" /\ args.fn = "add_text") =>
          LET max_len == IF args.indent = 60 THEN 85 ELSE 90
              step == args.size + 4
              entry == IF args.y < 80 THEN height - 50 ELSE args.y
              ops == c'.ops
              k == Len(ops)
          IN  /\ c.ops = <<>> /\ c.pages = 0
              /\ (k > 0) = (args.text.len > 0)
              /\ \A j \in 1..k :
                    /\ ops[j].op = "drawString"
                    /\ ops[j].x = args.indent
                    /\ ops[j].size = args.size
                    /\ ops[j].lo = (j - 1) * max_len
                    /\ ops[j].hi = Min(j * max_len, args.text.len)
              /\ k > 0 => /\ ops[1].y = entry
                          /\ ops[1].page = (IF args.y < 80 THEN 2 ELSE 1)
              /\ \A j \in 1..(k - 1) :
                    IF ops[j].y - step < 60
                    THEN ops[j + 1].y = height - 50 /\ ops[j + 1].page = ops[j].page + 1
                    ELSE ops[j + 1].y = ops[j].y - step /\ ops[j + 1].page = ops[j].page
              /\ c'.pages + 1 = (IF k > 0 THEN ops[k].page ELSE IF args.y < 80 THEN 2 ELSE 1)
              /\ returned' = (IF k > 0 THEN ops[k].y - step - 5 ELSE entry - 5)
              /\ c'.pages = 0 => returned' = args.y - k * step - 5
              /\ (c'.pages > 0 /\ k > 0) =>
                    returned' = (height - 50) - Len(OnLastPage(ops)) * step - 5]_vars

\* A call that draws two chunks, breaks the page before the third and draws
\* the last three on the new page.
C21_Witness ==
    /\ pc = "helper_done"
    /\ args.fn = "add_text"
    /\ args.indent = 60
    /\ args.size = 10
    /\ args.y = 80
    /\ Len(c.ops) = 5
    /\ c.ops[2].page = 1 /\ c.ops[2].y = 66 /\ c.ops[2].lo = 85
    /\ c.ops[3].page = 2 /\ c.ops[3].y = height - 50
    /\ returned = (height - 50) - 3 * 14 - 5

(***************************************************************************)
(* C22.  One add_text call draws the first min(len(text), 400) characters  *)
(* of its text, each once and in order, and no character past position     *)
(* 400, with chunks of 85 and of 90 characters alike.                      *)
(***************************************************************************)
C22_DrawsFirst400 ==
    [][(pc = "helper_start" /\ args.fn = "add_text") =>
          LET ops == c'.ops
              k == Len(ops)
              limit == Min(args.text.len, 400)
          IN  /\ \A j \in 1..k : ops[j].lo < ops[j].hi /\ ops[j].hi <= limit
              /\ \A j \in 1..(k - 1) : ops[j + 1].lo = ops[j].hi
              /\ k > 0 => ops[1].lo = 0 /\ ops[k].hi = limit
              /\ k = 0 => limit = 0]_vars

\* What the call does draw: the chunks START below character 400, so the
\* last one runs up to 85 or 90 characters further (425 or 450 at most).
C22_DrawsWholeLastChunk ==
    [][(pc = "helper_start" /\ args.fn = "add_text") =>
          LET ops == c'.ops
              k == Len(ops)
              max_len == IF args.indent = 60 THEN 85 ELSE 90
              limit == Min(args.text.len, ((399 \div max_len) + 1) * max_len)
          IN  /\ \A j \in 1..k : ops[j].lo < ops[j].hi /\ ops[j].hi <= limit
              /\ \A j \in 1..(k - 1) : ops[j + 1].lo = ops[j].hi
              /\ k > 0 => ops[1].lo = 0 /\ ops[k].hi = limit
              /\ k = 0 => limit = 0
              /\ k <= 5]_vars

(***************************************************************************)
(* C23.  Throughout create_pdf_report the cursor stays within              *)
(* 0 <= y <= height - 50, and every draw call lands inside the page: body  *)
(* text at y >= 60, headings at y >= 100, image boxes with their bottom    *)
(* edge at 50 or above, captions at y >= 30.  Between two page breaks the  *)
(* cursor never moves up.                                                  *)
(***************************************************************************)
BodyKinds == {"label", "text", "item", "sub"}

\* Where the cursor was when a draw call was made, and where the statement
\* that made it left the cursor.
CursorAt(o) == IF o.op = "drawImage" THEN o.y + 200 ELSE o.y

CursorAfter(o) ==
    CASE o.op = "drawImage" -> o.y + 200 - 220
      [] o.kind = "caption" -> o.y - 30
      [] o.kind = "heading" -> o.y - (o.size + 15)
      [] o.kind \in BodyKinds -> o.y - (o.size + 4)
      [] OTHER -> o.y

InCursorRange(v) == 0 <= v /\ v <= height - 50

C23_CursorOnPage ==
    /\ InCursorRange(y)
    /\ \A i \in DOMAIN c.ops :
          LET o == c.ops[i]
          IN  /\ InCursorRange(CursorAt(o))
              /\ InCursorRange(CursorAfter(o))
              /\ o.kind \in BodyKinds => (o.y >= 60 /\ InCursorRange(CursorAfter(o) - 5))
              /\ o.kind = "heading" => o.y >= 100
              /\ o.op = "drawImage" => o.y >= 50
              /\ o.kind = "caption" => o.y >= 30
              /\ (i > 1 /\ c.ops[i - 1].page = o.page) =>
                    CursorAt(o) <= CursorAfter(c.ops[i - 1])
    /\ (c.ops # <<>> /\ c.ops[Len(c.ops)].page = c.pages + 1) =>
          y <= CursorAfter(c.ops[Len(c.ops)])

\* A finished report of several pages with a body line drawn just above the
\* threshold 60 and, further on, an image with its caption.
C23_Witness ==
    /\ Finished
    /\ c.pages >= 2
    /\ \E i \in DOMAIN c.ops : c.ops[i].kind \in BodyKinds /\ c.ops[i].y < 70
    /\ \E i \in DOMAIN c.ops : c.ops[i].op = "drawImage"
    /\ \E i \in DOMAIN c.ops : c.ops[i].kind = "caption"

(***************************************************************************)
(* C24.  In every session state the handlers of the page can reach, an     *)
(* analysis in current_analysis comes with a policy id in                  *)
(* current_policy_id.  So an export is never made with an analysis and no  *)
(* policy, and every image generated in the session is stored in           *)
(* generated_media under a policy id.                                      *)
(***************************************************************************)
\* The images of the session that were generated in it (not loaded).
GeneratedHere == SelectSeq(session_state.generated_images, LAMBDA g : g.brief # "loaded")

Persisted(g) ==
    \E k \in DOMAIN db.generated_media :
        /\ db.generated_media[k].media_data = g.bytes
        /\ db.generated_media[k].media_type = "image"
        /\ db.generated_media[k].policy_id \in {db.policies[j].id : j \in DOMAIN db.policies}

C24_AnalysisImpliesPolicy ==
    /\ AnalysisSet(session_state) => PolicySet(session_state)
    /\ pc = "exported" => args.policy.given /\ args.analysis.given
    /\ \A i \in DOMAIN GeneratedHere : Persisted(GeneratedHere[i])

\* An export after a new policy was started and analysed, with an image.
C24_Witness ==
    /\ pc = "exported"
    /\ session_state.current_policy_id = 2
    /\ Len(GeneratedHere) = 1
    /\ Len(db.generated_media) = 1
    /\ db.generated_media[1].policy_id = 2

(***************************************************************************)
(* C25.  Whenever current_policy_id and current_analysis are both set, the *)
(* analysis is one stored in policy_contents under that policy id, so an   *)
(* export never pairs a policy with the analysis of another policy.        *)
(***************************************************************************)
StoredUnder(policy_id, a) ==
    \E k \in DOMAIN db.policy_contents :
        /\ db.policy_contents[k].policy_id = policy_id
        /\ db.policy_contents[k].content_type = "analysis"
        /\ json_loads_column(db.policy_contents[k].content_data) = a.map

C25_AnalysisOfCurrentPolicy ==
    /\ (PolicySet(session_state) /\ AnalysisSet(session_state)) =>
          StoredUnder(session_state.current_policy_id, session_state.current_analysis)
    /\ pc = "exported" => StoredUnder(args.policy.row.id, args.analysis)

(***************************************************************************)
(* C26.  Loading a saved policy that has several stored analyses sets      *)
(* current_analysis to the one created last.                               *)
(***************************************************************************)
AnalysesOf(policy_id) ==
    SelectSeq(db.policy_contents,
              LAMBDA row : row.policy_id = policy_id /\ row.content_type = "analysis")

Newest(rows) == CHOOSE r \in {rows[i] : i \in DOMAIN rows} :
                    \A i \in DOMAIN rows : rows[i].created_at <= r.created_at

Oldest(rows) == CHOOSE r \in {rows[i] : i \in DOMAIN rows} :
                    \A i \in DOMAIN rows : rows[i].created_at >= r.created_at

C26_LoadsNewestAnalysis ==
    [][LoadPolicy =>
          LET rows == AnalysesOf(session_state'.current_policy_id)
          IN  Len(rows) > 1 =>
                session_state'.current_analysis.map = json_loads_column(Newest(rows).content_data)]_vars

\* What the load does: the rows come newest first and every analysis row
\* overwrites current_analysis, so the one created first is kept.
C26_LoadsOldestAnalysis ==
    [][LoadPolicy =>
          LET rows == AnalysesOf(session_state'.current_policy_id)
          IN  Len(rows) > 0 =>
                session_state'.current_analysis.map = json_loads_column(Oldest(rows).content_data)]_vars

(***************************************************************************)
(* C27.  When a PDF or ZIP export is made, every image and every prompt    *)
(* set passed to it belongs to the policy exported: the image is stored    *)
(* under that policy id, the prompt set was generated from an analysis of  *)
(* that policy.                                                            *)
(***************************************************************************)
ImageOf(policy_id, bytes) ==
    \E k \in DOMAIN db.generated_media :
        /\ db.generated_media[k].policy_id = policy_id
        /\ db.generated_media[k].media_data = bytes

PromptsOf(policy_id, prompt_set) ==
    \E k \in DOMAIN db.policy_contents :
        /\ db.policy_contents[k].policy_id = policy_id
        /\ db.policy_contents[k].content_type = "analysis"
        /\ LET a == json_loads_column(db.policy_contents[k].content_data)
           IN  prompt_set = generate_video_prompts_3styles(a.content_briefs.video_brief)

C27_ExportOfOnePolicy ==
    pc = "exported" =>
        /\ args.images.given =>
              \A i \in DOMAIN args.images.list :
                  ImageOf(args.policy.row.id, args.images.list[i])
        /\ \A i \in DOMAIN session_state.video_prompts_3styles :
              PromptsOf(args.policy.row.id, session_state.video_prompts_3styles[i])

\* The part of C27 that does hold: loading a policy replaces the images by
\* those stored under the policy loaded.
C27_LoadReplacesImages ==
    [][LoadPolicy =>
          \A i \in DOMAIN session_state'.generated_images :
              ImageOf(session_state'.current_policy_id,
                      session_state'.generated_images[i].bytes)]_vars

(***************************************************************************)
(* C28.  workflow_step is never the fourth step: it is "planning" at the   *)
(* start and after start new policy, "execution" after save policy and     *)
(* "promotion" after a successful AI analysis, and no other handler        *)
(* changes it.  So steps.index(workflow_step) never fails and is never 3.  *)
(***************************************************************************)
C28_NeverLastStep ==
    [][/\ session_state.workflow_step \in {steps[1], steps[2], steps[3]}
       /\ session_state'.workflow_step \in {steps[1], steps[2], steps[3]}
       /\ NewPolicy => session_state'.workflow_step = "planning"
       /\ (SavePolicy /\ db' # db) => session_state'.workflow_step = "execution"
       /\ (AnalysisButton /\ Len(db'.policy_contents) > Len(db.policy_contents)) =>
             session_state'.workflow_step = "promotion"
       /\ session_state'.workflow_step # session_state.workflow_step =>
             \/ NewPolicy
             \/ SavePolicy
             \/ AnalysisButton /\ Truthy(returned'.parsed)]_vars

\* A policy saved after an analysis: the step went to "promotion" and back
\* to "execution".
C28_Witness ==
    /\ session_state.workflow_step = "execution"
    /\ AnalysisSet(session_state)
    /\ session_state.show_results
    /\ session_state.current_policy_id = 2

(***************************************************************************)
(* C29.  Start new policy puts every key of the session back to its        *)
(* default but active_tab, which it leaves as it is, and does not touch    *)
(* the database.                                                           *)
(***************************************************************************)
C29_NewPolicyResets ==
    [][NewPolicy =>
          /\ session_state' = [Defaults EXCEPT !.active_tab = session_state.active_tab]
          /\ db' = db]_vars

\* The defaults again, in a session that had a policy, an analysis and an
\* image and had opened another tab.
C29_Witness ==
    /\ pc = "ui"
    /\ session_state = [Defaults EXCEPT !.active_tab = 4]
    /\ Len(db.policies) > 0
    /\ Len(db.policy_contents) > 0
    /\ Len(db.generated_media) > 0

(***************************************************************************)
(* C30.  When generate_policy_analysis returns no analysis, the AI         *)
(* analysis button leaves current_analysis, show_results, workflow_step,   *)
(* generated_images and video_prompts_3styles as they were and writes no   *)
(* policy_contents row.  All it may do is create one policy row and set    *)
(* current_policy_id to it, and only when no policy was current.           *)
(***************************************************************************)
C30_FailedAnalysisFrame ==
    [][(AnalysisButton /\ returned' # <<>> /\ ~Truthy(returned'.parsed)) =>
          /\ db'.policy_contents = db.policy_contents
          /\ db'.generated_media = db.generated_media
          /\ IF PolicySet(session_state) \/ db'.policies = db.policies
             THEN /\ session_state' = session_state
                  /\ db' = db
             ELSE /\ Len(db'.policies) = Len(db.policies) + 1
                  /\ SubSeq(db'.policies, 1, Len(db.policies)) = db.policies
                  /\ session_state' = [session_state EXCEPT !.current_policy_id =
                                          db'.policies[Len(db'.policies)].id]]_vars

\* A failed analysis in a new session: the policy row is there and current,
\* and nothing else.
C30_Witness ==
    /\ pc = "ui"
    /\ returned = gpa_error
    /\ Len(db.policies) = 1
    /\ db.policy_contents = <<>>
    /\ session_state = [Defaults EXCEPT !.current_policy_id = 1]

====
